---- MODULE Spec2Model ----
(***************************************************************************)
(* A model of pandora's log-ingestion core: the newline scanner, the       *)
(* plain-text / JSON / logfmt / CSV record parsers, the mmap orchestrators *)
(* (parse_logs_pipelined, parse_format_mmap) and the streaming             *)
(* orchestrators (parse_logs_streamed, parse_structured_streamed).         *)
(*                                                                         *)
(* Conventions.  A byte is its ASCII code.  A buffer is a sequence of      *)
(* bytes; offsets are 0-based as in the source, so byte i of buffer d is   *)
(* d[i + 1] and the slice d[s..e] is SubSeq(d, s + 1, e).  Option::None,   *)
(* usize::MAX and the u32::MAX sentinel are all written NOT_FOUND.         *)
(* Sizes that the program counts in MiB are counted in bytes here.         *)
(***************************************************************************)
EXTENDS Integers, Sequences, FiniteSets, TLC

VARIABLES
    data,            \* the input: the mapped buffer, or the bytes of the file
    fmt,             \* "Plain" (parse_logs_*) or the format hint of parse_structured_*
    chunk_size,      \* chunk size (mmap) / segment size (streaming), in bytes
    num_threads,     \* requested worker count
    pc,              \* position of the orchestrator call
    boundaries,      \* mmap: chunk boundaries
    assignments,     \* mmap: per worker, the chunk indices it owns
    local,           \* mmap: per worker, the (chunk_idx, batch) pairs parsed so far
    wstate,          \* mmap: per worker "running" | "finished" | "panicked"
    finish_order,    \* mmap: history, the workers in the order their threads ended
    joined,          \* mmap: number of handles joined so far
    ordered_batches, \* mmap: per chunk, NoBatch or its batch
    result,          \* the value the call returned ("done", "returned", "parsed")
    file_pos,        \* streaming: bytes of the file consumed by read()
    filled,          \* streaming: bytes read_full has put in read_buf so far
    leftover,        \* streaming: carried-over partial line
    csv_header,      \* streaming: Option<CsvHeader>
    regions,         \* streaming: history of the regions handed to the parser
    read_errors,     \* streaming: history, number of read() calls that failed
    tokens,          \* parsers: the key/value tokens the input was written from
    scan_args        \* scanner: global_base, data_total_len and line_starts on entry

vars == <<data, fmt, chunk_size, num_threads, pc, boundaries, assignments, local,
          wstate, finish_order, joined, ordered_batches, result, file_pos, filled,
          leftover, csv_header, regions, read_errors, tokens, scan_args>>

(***************************************************************************)
(* Bounds of the model.                                                    *)
(***************************************************************************)
MaxLen == 5        \* longest buffer of the orchestrator specifications
MaxChunk == 2      \* largest chunk / segment size
MaxLine == 5        \* longest buffer handed to the parsers alone
MaxReadErrors == 1  \* most read() failures in one streaming call
MaxCrlfLine == 4    \* longest first line of the CR LF inputs
MaxLogfmtTokens == 3   \* most tokens of a line of lone keys and quoted values
MaxEnvLen == 3      \* longest text of the environment variable
MaxDetectTokens == 3 \* most tokens on the first line handed to detect
MaxMembers == 2     \* most key/value tokens of a token-built input
MaxScanLen == 353   \* longest slice handed to a scanner kernel
MaxThreads == 3    \* largest requested worker count

(***************************************************************************)
(* Bytes.                                                                  *)
(***************************************************************************)
TAB == 9
NL == 10
CR == 13
SP == 32
QUOTE == 34
COMMA == 44
COLON == 58
EQUALS == 61
LBRACKET == 91
BACKSLASH == 92
RBRACKET == 93
LBRACE == 123
RBRACE == 125
LOWER_T == 116

NOT_FOUND == -1

Byte(d, i) == d[i + 1]
Slice(d, s, e) == SubSeq(d, s + 1, e)
SetMin(S) == CHOOSE x \in S : \A y \in S : x <= y
SetMax(S) == CHOOSE x \in S : \A y \in S : x >= y
Min2(a, b) == IF a <= b THEN a ELSE b
Max2(a, b) == IF a >= b THEN a ELSE b

RECURSIVE SumSeq(_)
SumSeq(s) == IF s = <<>> THEN 0 ELSE Head(s) + SumSeq(Tail(s))

RECURSIVE Flatten(_)
Flatten(ss) == IF ss = <<>> THEN <<>> ELSE Head(ss) \o Flatten(Tail(ss))

\* memchr::memchr / memchr::memrchr: offset of the first / last needle in hay
memchr(needle, hay) ==
    LET hits == {i \in 0..(Len(hay) - 1) : Byte(hay, i) = needle}
    IN  IF hits = {} THEN NOT_FOUND ELSE SetMin(hits)

memrchr(needle, hay) ==
    LET hits == {i \in 0..(Len(hay) - 1) : Byte(hay, i) = needle}
    IN  IF hits = {} THEN NOT_FOUND ELSE SetMax(hits)

(***************************************************************************)
(* simd_scan.rs: the scanner.  Appends base + i + 1 for every newline at   *)
(* position i of the slice, when that offset is below data_total_len.      *)
(***************************************************************************)
scan_region_scalar(bytes, global_base, data_total_len) ==
    SelectSeq([k \in 1..Len(bytes) |-> global_base + k],
              LAMBDA next_line :
                  /\ bytes[next_line - global_base] = NL
                  /\ next_line < data_total_len)

\* the widths of the vector loops: four 64-byte lanes, one lane, one ymm
UNROLLED_WIDTH == 256
LANE_WIDTH == 64
YMM_WIDTH == 32

\* _mm256_movemask_epi8(_mm256_cmpeq_epi8(..)) / _mm512_cmpeq_epi8_mask:
\* the mask as the set of its set bits, for the width bytes at offset
cmpeq_mask(bytes, offset, width) ==
    {b \in 0..(width - 1) : bytes[offset + b + 1] = NL}

\* an avx2_cmp_64 that forgets to shift the high half
avx2_cmp_64_unshifted(bytes, offset) ==
    cmpeq_mask(bytes, offset, YMM_WIDTH)
        \cup cmpeq_mask(bytes, offset + YMM_WIDTH, YMM_WIDTH)

avx2_cmp_64(bytes, offset) ==
    cmpeq_mask(bytes, offset, YMM_WIDTH)
        \cup {b + YMM_WIDTH : b \in cmpeq_mask(bytes, offset + YMM_WIDTH, YMM_WIDTH)}

\* the 64-bit mask of one lane as the kernel computes it
LaneMask(kernel, bytes, offset) ==
    IF kernel = "avx2" THEN avx2_cmp_64(bytes, offset)
    ELSE cmpeq_mask(bytes, offset, LANE_WIDTH)

RECURSIVE extract_positions_from_mask(_, _, _, _)
extract_positions_from_mask(mask, base_offset, data_total_len, line_starts) ==
    IF mask = {} THEN line_starts
    ELSE LET pos == CHOOSE b \in mask : \A b2 \in mask : b <= b2   \* trailing_zeros
             next_line_start == base_offset + pos + 1
         IN  extract_positions_from_mask(
                 mask \ {pos}, base_offset, data_total_len,
                 IF next_line_start < data_total_len
                 THEN Append(line_starts, next_line_start) ELSE line_starts)

\* while offset < unrolled_end: four lanes per iteration
RECURSIVE UnrolledLoop(_, _, _, _, _, _)
UnrolledLoop(kernel, bytes, offset, global_base, data_total_len, line_starts) ==
    LET len == Len(bytes)
        unrolled_end == IF len >= UNROLLED_WIDTH THEN len - (UNROLLED_WIDTH - 1) ELSE 0
    IN  IF offset < unrolled_end
        THEN LET l0 == extract_positions_from_mask(
                           LaneMask(kernel, bytes, offset),
                           global_base + offset, data_total_len, line_starts)
                 l1 == extract_positions_from_mask(
                           LaneMask(kernel, bytes, offset + 64),
                           global_base + (offset + 64), data_total_len, l0)
                 l2 == extract_positions_from_mask(
                           LaneMask(kernel, bytes, offset + 128),
                           global_base + (offset + 128), data_total_len, l1)
                 l3 == extract_positions_from_mask(
                           LaneMask(kernel, bytes, offset + 192),
                           global_base + (offset + 192), data_total_len, l2)
             IN  UnrolledLoop(kernel, bytes, offset + UNROLLED_WIDTH, global_base,
                              data_total_len, l3)
        ELSE [offset |-> offset, line_starts |-> line_starts]

\* while offset < single_end: one lane per iteration
RECURSIVE SingleLoop(_, _, _, _, _, _)
SingleLoop(kernel, bytes, offset, global_base, data_total_len, line_starts) ==
    LET len == Len(bytes)
        single_end == IF len >= LANE_WIDTH THEN len - (LANE_WIDTH - 1) ELSE 0
    IN  IF offset < single_end
        THEN SingleLoop(kernel, bytes, offset + LANE_WIDTH, global_base, data_total_len,
                        extract_positions_from_mask(
                            LaneMask(kernel, bytes, offset),
                            global_base + offset, data_total_len, line_starts))
        ELSE [offset |-> offset, line_starts |-> line_starts]

\* while offset < ymm_end: one 32-byte vector per iteration (AVX-2 only)
RECURSIVE YmmLoop(_, _, _, _, _)
YmmLoop(bytes, offset, global_base, data_total_len, line_starts) ==
    LET len == Len(bytes)
        ymm_end == IF len >= YMM_WIDTH THEN len - (YMM_WIDTH - 1) ELSE 0
    IN  IF offset < ymm_end
        THEN YmmLoop(bytes, offset + YMM_WIDTH, global_base, data_total_len,
                     extract_positions_from_mask(
                         cmpeq_mask(bytes, offset, YMM_WIDTH),
                         global_base + offset, data_total_len, line_starts))
        ELSE [offset |-> offset, line_starts |-> line_starts]

\* while offset < len: the scalar tail of the vector kernels
RECURSIVE TailLoop(_, _, _, _, _)
TailLoop(bytes, offset, global_base, data_total_len, line_starts) ==
    IF offset < Len(bytes)
    THEN LET next_line == global_base + offset + 1
         IN  TailLoop(bytes, offset + 1, global_base, data_total_len,
                      IF bytes[offset + 1] = NL /\ next_line < data_total_len
                      THEN Append(line_starts, next_line) ELSE line_starts)
    ELSE line_starts

scan_region_avx512(bytes, global_base, data_total_len, line_starts) ==
    LET u == UnrolledLoop("avx512", bytes, 0, global_base, data_total_len, line_starts)
        s == SingleLoop("avx512", bytes, u.offset, global_base, data_total_len,
                        u.line_starts)
    IN  TailLoop(bytes, s.offset, global_base, data_total_len, s.line_starts)

scan_region_avx2(bytes, global_base, data_total_len, line_starts) ==
    LET u == UnrolledLoop("avx2", bytes, 0, global_base, data_total_len, line_starts)
        s == SingleLoop("avx2", bytes, u.offset, global_base, data_total_len,
                        u.line_starts)
        y == YmmLoop(bytes, s.offset, global_base, data_total_len, s.line_starts)
    IN  TailLoop(bytes, y.offset, global_base, data_total_len, y.line_starts)

\* the kernel is chosen by the CPU's features; the three kernels append the
\* same offsets, so the pipelines are modelled on the scalar one
scan_region(bytes, global_base, data_total_len) ==
    scan_region_scalar(bytes, global_base, data_total_len)

\* line_starts as parse_chunk / parse_structured_chunk build it
ChunkLineStarts(d, start, end, data_len) ==
    <<start>> \o scan_region(Slice(d, start, end), start, data_len) \o <<end>>

(***************************************************************************)
(* data.rs / parser.rs: the plain-text record model and parser.            *)
(***************************************************************************)
from_bytes(b) ==
    IF b = <<>> THEN "Unknown"
    ELSE IF b[1] = 68 /\ Len(b) = 5 THEN "Debug"
    ELSE IF b[1] = 73 /\ Len(b) = 4 THEN "Info"
    ELSE IF b[1] = 87 /\ Len(b) = 4 THEN "Warn"
    ELSE IF b[1] = 69 /\ Len(b) = 5 THEN "Error"
    ELSE IF b[1] = 70 /\ Len(b) = 5 THEN "Fatal"
    ELSE "Unknown"

\* u16 / u32 wrapping_sub of 0x30 per byte, with the borrow of the lower bytes
SwarBorrow(b, off, k) ==
    LET F[j \in 0..k] ==
            IF j = 0 THEN 0
            ELSE IF Byte(b, off + j - 1) - 48 - F[j - 1] < 0 THEN 1 ELSE 0
    IN  F[k]

SwarDigit(b, off, k) == (Byte(b, off + k) - 48 - SwarBorrow(b, off, k)) % 256

swar_parse_4(b, off) ==
    SwarDigit(b, off, 0) * 1000 + SwarDigit(b, off, 1) * 100
        + SwarDigit(b, off, 2) * 10 + SwarDigit(b, off, 3)

swar_parse_2(b, off) == SwarDigit(b, off, 0) * 10 + SwarDigit(b, off, 1)

swar_parse_hms(b, off) ==
    swar_parse_2(b, off) * 10000 + swar_parse_2(b, off + 3) * 100
        + swar_parse_2(b, off + 6)

\* the Julian rule: every fourth year
is_leap_year_julian(y) == y % 4 = 0

is_leap_year(y) == (y % 4 = 0 /\ y % 100 # 0) \/ (y % 400 = 0)

MONTH_DAYS == <<0, 31, 59, 90, 120, 151, 181, 212, 243, 273, 304, 334>>

\* A timestamp days * 86400 + secs is kept as [days, secs] with secs < 86400:
\* the seconds of a four-digit year do not fit TLC's integers.
Timestamp(days, secs) == [days |-> days + (secs \div 86400), secs |-> secs % 86400]
TimestampZero == [days |-> 0, secs |-> 0]

parse_timestamp_fast(b) ==
    IF Len(b) < 20 THEN TimestampZero
    ELSE
        LET year == swar_parse_4(b, 0)
            month == swar_parse_2(b, 5)
            day == swar_parse_2(b, 8)
            hms == swar_parse_hms(b, 11)
            hour == hms \div 10000
            min == (hms \div 100) % 100
            sec == hms % 100
            y == year - 1970
            leaps == IF year > 1970
                     THEN ((year - 1969) \div 4) - ((year - 1901) \div 100)
                              + ((year - 1601) \div 400)
                     ELSE 0
            mdays == IF month >= 1 /\ month <= 12
                     THEN MONTH_DAYS[month]
                              + (IF month > 2 /\ is_leap_year(year) THEN 1 ELSE 0)
                     ELSE 0
            days == y * 365 + leaps + mdays + day - 1
            secs == hour * 3600 + min * 60 + sec
        IN  IF days >= 0 THEN Timestamp(days, secs)
            ELSE IF days < -200 THEN TimestampZero      \* total_secs < 0
            ELSE IF days * 86400 + secs < 0 THEN TimestampZero
            ELSE Timestamp(0, days * 86400 + secs)

find_first_3_spaces(line) ==
    LET after(prev) ==
            IF prev = NOT_FOUND THEN NOT_FOUND
            ELSE LET pos == memchr(SP, Slice(line, prev + 1, Len(line)))
                 IN  IF pos = NOT_FOUND THEN NOT_FOUND ELSE prev + 1 + pos
        s1 == memchr(SP, line)
        s2 == after(s1)
        s3 == after(s2)
    IN  <<s1, s2, s3>>

\* One row of the LogBatch columns, as parse_line writes it at `index`.
parse_line(line, base_offset) ==
    LET spaces == find_first_3_spaces(line)
        space1 == spaces[1]
        space2 == spaces[2]
        space3 == spaces[3]
        len == Len(line)
    IN  IF space1 = NOT_FOUND THEN
            [timestamp |-> TimestampZero, level |-> "Unknown",
             component_offset |-> base_offset, component_len |-> 0,
             message_offset |-> base_offset, message_len |-> len]
        ELSE IF space2 = NOT_FOUND THEN
            [timestamp |-> parse_timestamp_fast(Slice(line, 0, space1)),
             level |-> from_bytes(Slice(line, space1 + 1, len)),
             component_offset |-> base_offset + len, component_len |-> 0,
             message_offset |-> base_offset + len, message_len |-> 0]
        ELSE IF space3 = NOT_FOUND THEN
            [timestamp |-> parse_timestamp_fast(Slice(line, 0, space1)),
             level |-> from_bytes(Slice(line, space1 + 1, space2)),
             component_offset |-> base_offset + space2 + 1,
             component_len |-> len - (space2 + 1),
             message_offset |-> base_offset + len, message_len |-> 0]
        ELSE
            [timestamp |-> parse_timestamp_fast(Slice(line, 0, space1)),
             level |-> from_bytes(Slice(line, space1 + 1, space2)),
             component_offset |-> base_offset + space2 + 1,
             component_len |-> space3 - (space2 + 1),
             message_offset |-> base_offset + space3 + 1,
             message_len |-> IF space3 + 1 < len THEN len - (space3 + 1) ELSE 0]

\* The row LogBatch::new leaves where parse_lines_range skips a line.
DefaultRow ==
    [timestamp |-> TimestampZero, level |-> "Unknown",
     component_offset |-> 0, component_len |-> 0,
     message_offset |-> 0, message_len |-> 0]

\* LogBatch::new(capacity, _) followed by the writes of `rows`.
LogBatchNew(rows) ==
    [len |-> Len(rows),
     timestamps |-> [i \in 1..Len(rows) |-> rows[i].timestamp],
     levels |-> [i \in 1..Len(rows) |-> rows[i].level],
     component_offsets |-> [i \in 1..Len(rows) |-> rows[i].component_offset],
     component_lens |-> [i \in 1..Len(rows) |-> rows[i].component_len],
     message_offsets |-> [i \in 1..Len(rows) |-> rows[i].message_offset],
     message_lens |-> [i \in 1..Len(rows) |-> rows[i].message_len],
     panicked |-> FALSE]

\* End (exclusive) of line i in parser.rs: only the newline is stripped.
PlainLineEnd(d, line_starts, i) ==
    IF i + 1 < Len(line_starts)
    THEN LET next == line_starts[i + 2]
         IN  IF next > 0 /\ next <= Len(d) /\ Byte(d, next - 1) = NL
             THEN next - 1 ELSE next
    ELSE Len(d)

\* parse_lines_range(data, line_starts, 0, num_lines, batch) on a fresh batch
parse_lines_range(d, line_starts, num_lines) ==
    LogBatchNew([k \in 1..num_lines |->
        LET line_start == line_starts[k]
            line_end == PlainLineEnd(d, line_starts, k - 1)
        IN  IF line_start >= Len(d) \/ line_start >= line_end
            THEN DefaultRow
            ELSE parse_line(Slice(d, line_start, line_end), line_start)])

parse_chunk(d, start, end, data_len) ==
    LET line_starts == ChunkLineStarts(d, start, end, data_len)
    IN  parse_lines_range(d, line_starts, Len(line_starts) - 1)

parse_owned_chunk(d) == parse_chunk(d, 0, Len(d), Len(d))

(***************************************************************************)
(* structured.rs: the well-known key classifier.                           *)
(***************************************************************************)
TIMESTAMP_NAMES ==
    << <<116, 105, 109, 101, 115, 116, 97, 109, 112>>,   \* timestamp
       <<116, 105, 109, 101>>,   \* time
       <<116, 115>>,   \* ts
       <<64, 116, 105, 109, 101, 115, 116, 97, 109, 112>>,   \* @timestamp
       <<100, 97, 116, 101, 116, 105, 109, 101>>,   \* datetime
       <<100, 97, 116, 101>>,   \* date
       <<116>>,   \* t
       <<99, 114, 101, 97, 116, 101, 100, 95, 97, 116>>,   \* created_at
       <<108, 111, 103, 103, 101, 100, 95, 97, 116>>,   \* logged_at
       <<101, 118, 101, 110, 116, 95, 116, 105, 109, 101>> >>   \* event_time

LEVEL_NAMES ==
    << <<108, 101, 118, 101, 108>>,   \* level
       <<115, 101, 118, 101, 114, 105, 116, 121>>,   \* severity
       <<108, 118, 108>>,   \* lvl
       <<108, 111, 103, 95, 108, 101, 118, 101, 108>>,   \* log_level
       <<108, 111, 103, 108, 101, 118, 101, 108>>,   \* loglevel
       <<108, 111, 103, 46, 108, 101, 118, 101, 108>>,   \* log.level
       <<112, 114, 105, 111, 114, 105, 116, 121>>,   \* priority
       <<115, 101, 118>> >>   \* sev

MESSAGE_NAMES ==
    << <<109, 101, 115, 115, 97, 103, 101>>,   \* message
       <<109, 115, 103>>,   \* msg
       <<116, 101, 120, 116>>,   \* text
       <<98, 111, 100, 121>>,   \* body
       <<108, 111, 103>>,   \* log
       <<100, 101, 115, 99, 114, 105, 112, 116, 105, 111, 110>>,   \* description
       <<99, 111, 110, 116, 101, 110, 116>> >>   \* content

COMPONENT_NAMES ==
    << <<99, 111, 109, 112, 111, 110, 101, 110, 116>>,   \* component
       <<115, 111, 117, 114, 99, 101>>,   \* source
       <<108, 111, 103, 103, 101, 114>>,   \* logger
       <<109, 111, 100, 117, 108, 101>>,   \* module
       <<115, 101, 114, 118, 105, 99, 101>>,   \* service
       <<99, 97, 108, 108, 101, 114>>,   \* caller
       <<110, 97, 109, 101>>,   \* name
       <<108, 111, 103, 103, 101, 114, 95, 110, 97, 109, 101>>,   \* logger_name
       <<115, 117, 98, 115, 121, 115, 116, 101, 109>>,   \* subsystem
       <<116, 97, 103>> >>   \* tag

to_ascii_lowercase(b) == IF b >= 65 /\ b <= 90 THEN b + 32 ELSE b

InNames(lower, names) == \E k \in 1..Len(names) : lower = names[k]

\* the dispatch on the first byte of the lowered key and the exact compares
classify_lowered(lower) ==
    LET first == IF Len(lower) = 0 THEN NOT_FOUND ELSE lower[1]
    IN  IF first \in {116, 64, 100, 99, 101, 108} THEN        \* t @ d c e l
            IF InNames(lower, TIMESTAMP_NAMES) THEN "Timestamp"
            ELSE IF InNames(lower, LEVEL_NAMES) THEN "Level"
            ELSE IF InNames(lower, MESSAGE_NAMES) THEN "Message"
            ELSE IF InNames(lower, COMPONENT_NAMES) THEN "Component"
            ELSE "Other"
        ELSE IF first = 109 THEN                                \* m
            IF InNames(lower, MESSAGE_NAMES) THEN "Message"
            ELSE IF InNames(lower, COMPONENT_NAMES) THEN "Component"
            ELSE "Other"
        ELSE IF first = 115 THEN                                \* s
            IF InNames(lower, LEVEL_NAMES) THEN "Level"
            ELSE IF InNames(lower, COMPONENT_NAMES) THEN "Component"
            ELSE "Other"
        ELSE IF first = 112 THEN                                \* p
            IF InNames(lower, LEVEL_NAMES) THEN "Level" ELSE "Other"
        ELSE IF first \in {98, 110} THEN                        \* b n
            IF InNames(lower, MESSAGE_NAMES) THEN "Message"
            ELSE IF InNames(lower, COMPONENT_NAMES) THEN "Component"
            ELSE "Other"
        ELSE "Other"

\* a classify_key that compares the bytes as they are
classify_key_case_sensitive(key) ==
    classify_lowered(SubSeq(key, 1, Min2(Len(key), 64)))

classify_key(key) ==
    LET len == Min2(Len(key), 64)
        lower == [i \in 1..len |-> to_ascii_lowercase(key[i])]
    IN  classify_lowered(lower)

(***************************************************************************)
(* structured.rs: the structured batch.  `panicked` records that the parse *)
(* that was filling the batch panicked (the batch is then never returned). *)
(***************************************************************************)
WellKnownDefault ==
    [timestamp |-> NOT_FOUND, level |-> NOT_FOUND,
     message |-> NOT_FOUND, component |-> NOT_FOUND]

with_capacity ==
    [fields |-> <<>>, field_starts |-> <<0>>, well_known |-> <<>>,
     line_offsets |-> <<>>, line_lens |-> <<>>, len |-> 0, panicked |-> FALSE]

begin_record(batch, line_offset, line_len) ==
    [batch EXCEPT !.line_offsets = Append(@, line_offset),
                  !.line_lens = Append(@, line_len),
                  !.well_known = Append(@, WellKnownDefault),
                  !.len = @ + 1]

push_field(batch, field) == [batch EXCEPT !.fields = Append(@, field)]

\* A faulty end_record that forgets to close the record.
end_record_forgotten(batch) == batch

end_record(batch) == [batch EXCEPT !.field_starts = Append(@, Len(batch.fields))]

\* set_well_known_{timestamp,level,message,component}: the last record's slot
\* a set_well_known_* that keeps the first index seen instead of the last
set_well_known_first(batch, kind, field_idx) ==
    LET n == Len(batch.well_known)
    IN  IF n = 0 \/ kind = "Other" THEN batch
        ELSE IF kind = "Timestamp"
             THEN IF batch.well_known[n].timestamp # NOT_FOUND THEN batch
                  ELSE [batch EXCEPT !.well_known[n].timestamp = field_idx]
        ELSE IF kind = "Level"
             THEN IF batch.well_known[n].level # NOT_FOUND THEN batch
                  ELSE [batch EXCEPT !.well_known[n].level = field_idx]
        ELSE IF kind = "Message"
             THEN IF batch.well_known[n].message # NOT_FOUND THEN batch
                  ELSE [batch EXCEPT !.well_known[n].message = field_idx]
        ELSE IF batch.well_known[n].component # NOT_FOUND THEN batch
             ELSE [batch EXCEPT !.well_known[n].component = field_idx]

set_well_known(batch, kind, field_idx) ==
    LET n == Len(batch.well_known)
    IN  IF n = 0 \/ kind = "Other" THEN batch
        ELSE IF kind = "Timestamp"
             THEN [batch EXCEPT !.well_known[n].timestamp = field_idx]
        ELSE IF kind = "Level"
             THEN [batch EXCEPT !.well_known[n].level = field_idx]
        ELSE IF kind = "Message"
             THEN [batch EXCEPT !.well_known[n].message = field_idx]
        ELSE [batch EXCEPT !.well_known[n].component = field_idx]

FieldRef(key_offset, key_len, val_offset, val_len) ==
    [key_offset |-> key_offset, key_len |-> key_len,
     val_offset |-> val_offset, val_len |-> val_len]

\* End (exclusive) of line i in the JSON / logfmt / CSV range parsers.
StructLineEnd(d, line_starts, i, strip_last) ==
    IF i + 1 < Len(line_starts)
    THEN LET next == line_starts[i + 2]
         IN  IF next > 0 /\ next <= Len(d) /\ Byte(d, next - 1) = NL
             THEN IF next > 1 /\ Byte(d, next - 2) = CR THEN next - 2 ELSE next - 1
             ELSE next
    ELSE IF strip_last
    THEN LET e1 == IF Len(d) > 0 /\ Byte(d, Len(d) - 1) = NL THEN Len(d) - 1 ELSE Len(d)
         IN  IF e1 > 0 /\ Byte(d, e1 - 1) = CR THEN e1 - 1 ELSE e1
    ELSE Len(d)

(***************************************************************************)
(* json_parser.rs                                                          *)
(***************************************************************************)
is_json_whitespace(b) == b = SP \/ b = TAB \/ b = CR \/ b = NL

is_json_value_terminator(b) ==
    b = COMMA \/ b = RBRACE \/ b = RBRACKET \/ is_json_whitespace(b)

RECURSIVE SkipJsonWhitespace(_, _)
SkipJsonWhitespace(line, i) ==
    IF i < Len(line) /\ is_json_whitespace(Byte(line, i))
    THEN SkipJsonWhitespace(line, i + 1) ELSE i

\* A faulty string scan: the first quote ends the string, escaped or not.
RECURSIVE ScanQuotedIgnoringEscapes(_, _)
ScanQuotedIgnoringEscapes(line, i) ==
    IF i < Len(line) /\ Byte(line, i) # QUOTE
    THEN ScanQuotedIgnoringEscapes(line, i + 1) ELSE i

\* while i < len && line[i] != b'"' { if line[i] == b'\\' { i += 1 } i += 1 }
RECURSIVE ScanQuoted(_, _)
ScanQuoted(line, i) ==
    IF i < Len(line) /\ Byte(line, i) # QUOTE
    THEN ScanQuoted(line, IF Byte(line, i) = BACKSLASH THEN i + 2 ELSE i + 1)
    ELSE i

\* while i < len && line[i] != b',' && line[i] != b'}' { i += 1 }
RECURSIVE SkipToCommaOrBrace(_, _)
SkipToCommaOrBrace(line, i) ==
    IF i < Len(line) /\ Byte(line, i) # COMMA /\ Byte(line, i) # RBRACE
    THEN SkipToCommaOrBrace(line, i + 1) ELSE i

\* a depth loop that also counts the brackets inside strings
RECURSIVE ScanNestedCountingStrings(_, _, _, _, _)
ScanNestedCountingStrings(line, i, depth, open, close) ==
    IF i < Len(line) /\ depth > 0
    THEN LET b == Byte(line, i)
         IN  IF b = open
             THEN ScanNestedCountingStrings(line, i + 1, depth + 1, open, close)
             ELSE IF b = close
             THEN ScanNestedCountingStrings(line, i + 1, depth - 1, open, close)
             ELSE ScanNestedCountingStrings(line, i + 1, depth, open, close)
    ELSE i

\* the depth loop of a nested object / array value
RECURSIVE ScanNested(_, _, _, _, _)
ScanNested(line, i, depth, open, close) ==
    IF i < Len(line) /\ depth > 0
    THEN LET b == Byte(line, i)
         IN  IF b = open THEN ScanNested(line, i + 1, depth + 1, open, close)
             ELSE IF b = close THEN ScanNested(line, i + 1, depth - 1, open, close)
             ELSE IF b = QUOTE
                  THEN ScanNested(line, ScanQuoted(line, i + 1) + 1, depth, open, close)
             ELSE ScanNested(line, i + 1, depth, open, close)
    ELSE i

RECURSIVE ScanBareValue(_, _)
ScanBareValue(line, i) ==
    IF i < Len(line) /\ ~is_json_value_terminator(Byte(line, i))
    THEN ScanBareValue(line, i + 1) ELSE i

RECURSIVE TrimJsonValueEnd(_, _, _)
TrimJsonValueEnd(line, val_start, val_end) ==
    IF val_end > val_start /\ is_json_whitespace(Byte(line, val_end - 1))
    THEN TrimJsonValueEnd(line, val_start, val_end - 1) ELSE val_end

\* returns the value range and the cursor after the value
parse_json_value(line, i) ==
    LET len == Len(line)
    IN  IF i >= len THEN [val_start |-> i, val_end |-> i, i |-> i]
        ELSE IF Byte(line, i) = QUOTE THEN
            LET e == ScanQuoted(line, i + 1)
            IN  [val_start |-> i + 1, val_end |-> e,
                 i |-> IF e < len THEN e + 1 ELSE e]
        ELSE IF Byte(line, i) = LBRACE THEN
            LET e == ScanNested(line, i + 1, 1, LBRACE, RBRACE)
            IN  [val_start |-> i, val_end |-> e, i |-> e]
        ELSE IF Byte(line, i) = LBRACKET THEN
            LET e == ScanNested(line, i + 1, 1, LBRACKET, RBRACKET)
            IN  [val_start |-> i, val_end |-> e, i |-> e]
        ELSE
            LET e == ScanBareValue(line, i)
            IN  [val_start |-> i, val_end |-> TrimJsonValueEnd(line, i, e), i |-> e]

\* the member loop of parse_json_line, from cursor i0
RECURSIVE JsonMembers(_, _, _, _)
JsonMembers(line, base_offset, i0, batch) ==
    LET len == Len(line)
        i == SkipJsonWhitespace(line, i0)
    IN  IF i >= len THEN batch
        ELSE IF Byte(line, i) = RBRACE THEN batch
        ELSE IF Byte(line, i) = COMMA THEN JsonMembers(line, base_offset, i + 1, batch)
        ELSE IF Byte(line, i) # QUOTE
             THEN JsonMembers(line, base_offset, SkipToCommaOrBrace(line, i), batch)
        ELSE
            LET key_start == i + 1
                key_end == ScanQuoted(line, i + 1)
                i1 == IF key_end < len THEN key_end + 1 ELSE key_end
                i2 == SkipJsonWhitespace(line, i1)
                i3 == IF i2 < len /\ Byte(line, i2) = COLON THEN i2 + 1 ELSE i2
                i4 == SkipJsonWhitespace(line, i3)
                v == parse_json_value(line, i4)
                field_idx == Len(batch.fields)
                pushed == push_field(batch,
                              FieldRef(base_offset + key_start, key_end - key_start,
                                       base_offset + v.val_start, v.val_end - v.val_start))
            IN  IF key_end > len
                THEN [pushed EXCEPT !.panicked = TRUE]   \* &line[key_start..key_end]
                ELSE
                    LET kind == classify_key(Slice(line, key_start, key_end))
                        i5 == SkipJsonWhitespace(line, v.i)
                        i6 == IF i5 < len /\ Byte(line, i5) = COMMA THEN i5 + 1 ELSE i5
                    IN  JsonMembers(line, base_offset, i6,
                                    set_well_known(pushed, kind, field_idx))

parse_json_line(line, base_offset, batch) ==
    LET len == Len(line)
        brace == memchr(LBRACE, line)
    IN  IF len < 2 THEN batch
        ELSE IF brace = NOT_FOUND THEN batch
        ELSE LET after == JsonMembers(line, base_offset, brace + 1,
                                      begin_record(batch, base_offset, len))
             IN  IF after.panicked THEN after ELSE end_record(after)

RECURSIVE JsonLinesFrom(_, _, _, _, _)
JsonLinesFrom(d, line_starts, i, end_idx, batch) ==
    IF i >= end_idx \/ batch.panicked THEN batch
    ELSE
        LET line_start == line_starts[i + 1]
            line_end == StructLineEnd(d, line_starts, i, FALSE)
            skip == \/ line_start >= Len(d)
                    \/ line_start >= line_end
                    \/ \A k \in line_start..(line_end - 1) : is_json_whitespace(Byte(d, k))
        IN  JsonLinesFrom(d, line_starts, i + 1, end_idx,
                IF skip THEN batch
                ELSE parse_json_line(Slice(d, line_start, line_end), line_start, batch))

parse_json_lines_range(d, line_starts, start_idx, end_idx, batch) ==
    JsonLinesFrom(d, line_starts, start_idx, end_idx, batch)

(***************************************************************************)
(* logfmt_parser.rs                                                        *)
(***************************************************************************)
RECURSIVE SkipSpaces(_, _)
SkipSpaces(line, i) ==
    IF i < Len(line) /\ Byte(line, i) = SP THEN SkipSpaces(line, i + 1) ELSE i

\* while i < len && line[i] != b'=' && line[i] != b' ' { i += 1 }
RECURSIVE ScanLogfmtKey(_, _)
ScanLogfmtKey(line, i) ==
    IF i < Len(line) /\ Byte(line, i) # EQUALS /\ Byte(line, i) # SP
    THEN ScanLogfmtKey(line, i + 1) ELSE i

\* a value scan that also stops at '='
RECURSIVE ScanToSpaceOrEquals(_, _)
ScanToSpaceOrEquals(line, i) ==
    IF i < Len(line) /\ Byte(line, i) # SP /\ Byte(line, i) # EQUALS
    THEN ScanToSpaceOrEquals(line, i + 1) ELSE i

RECURSIVE ScanToSpace(_, _)
ScanToSpace(line, i) ==
    IF i < Len(line) /\ Byte(line, i) # SP THEN ScanToSpace(line, i + 1) ELSE i

classify_and_set(line, key_start, key_end, field_idx, batch) ==
    set_well_known(batch, classify_key(Slice(line, key_start, key_end)), field_idx)

\* the token loop of parse_logfmt_line, from cursor i0
RECURSIVE LogfmtTokens(_, _, _, _)
LogfmtTokens(line, base_offset, i0, batch) ==
    LET len == Len(line)
        key_start == SkipSpaces(line, i0)
        key_end == ScanLogfmtKey(line, key_start)
        field_idx == Len(batch.fields)
    IN  IF key_start >= len THEN batch
        ELSE IF key_end >= len \/ Byte(line, key_end) # EQUALS THEN
            LogfmtTokens(line, base_offset, key_end,
                IF key_end > key_start
                THEN classify_and_set(line, key_start, key_end, field_idx,
                         push_field(batch,
                             FieldRef(base_offset + key_start, key_end - key_start,
                                      base_offset + key_end, 0)))
                ELSE batch)
        ELSE
            LET i1 == key_end + 1
                quoted == i1 < len /\ Byte(line, i1) = QUOTE
                val_start == IF quoted THEN i1 + 1 ELSE i1
                val_end == IF quoted THEN ScanQuoted(line, i1 + 1)
                           ELSE ScanToSpace(line, i1)
                i2 == IF quoted /\ val_end < len THEN val_end + 1 ELSE val_end
            IN  LogfmtTokens(line, base_offset, i2,
                    classify_and_set(line, key_start, key_end, field_idx,
                        push_field(batch,
                            FieldRef(base_offset + key_start, key_end - key_start,
                                     base_offset + val_start, val_end - val_start))))

parse_logfmt_line(line, base_offset, batch) ==
    IF Len(line) = 0 THEN batch
    ELSE end_record(LogfmtTokens(line, base_offset, 0,
                                 begin_record(batch, base_offset, Len(line))))

RECURSIVE LogfmtLinesFrom(_, _, _, _, _)
LogfmtLinesFrom(d, line_starts, i, end_idx, batch) ==
    IF i >= end_idx THEN batch
    ELSE
        LET line_start == line_starts[i + 1]
            line_end == StructLineEnd(d, line_starts, i, FALSE)
            skip == \/ line_start >= Len(d)
                    \/ line_start >= line_end
                    \/ \A k \in line_start..(line_end - 1) :
                           Byte(d, k) = SP \/ Byte(d, k) = TAB
        IN  LogfmtLinesFrom(d, line_starts, i + 1, end_idx,
                IF skip THEN batch
                ELSE parse_logfmt_line(Slice(d, line_start, line_end), line_start, batch))

parse_logfmt_lines_range(d, line_starts, start_idx, end_idx, batch) ==
    LogfmtLinesFrom(d, line_starts, start_idx, end_idx, batch)

(***************************************************************************)
(* csv_parser.rs                                                           *)
(***************************************************************************)
NoHeader == [is_some |-> FALSE, columns |-> <<>>, well_known |-> <<>>]

RECURSIVE TrimStart(_, _, _)
TrimStart(d, start, end) ==
    IF start < end /\ (Byte(d, start) = SP \/ Byte(d, start) = TAB)
    THEN TrimStart(d, start + 1, end) ELSE start

RECURSIVE TrimEnd(_, _, _)
TrimEnd(d, start, end) ==
    IF end > start /\ (Byte(d, end - 1) = SP \/ Byte(d, end - 1) = TAB)
    THEN TrimEnd(d, start, end - 1) ELSE end

\* trim_csv_field on d[field_start..field_end]: <<offset, len>> of what is left
trim_csv_field(d, field_start, field_end) ==
    LET start == TrimStart(d, field_start, field_end)
        end == TrimEnd(d, start, field_end)
        unquote == end - start >= 2 /\ Byte(d, start) = QUOTE /\ Byte(d, end - 1) = QUOTE
    IN  IF unquote THEN <<start + 1, (end - 1) - (start + 1)>>
        ELSE <<start, end - start>>

header_end_offset(d) ==
    LET pos == memchr(NL, d)
    IN  IF pos = NOT_FOUND THEN Len(d) ELSE pos + 1

\* CsvHeader::parse
CsvHeaderParse(d) ==
    LET nl == memchr(NL, d)
        line_end == IF nl = NOT_FOUND THEN Len(d) ELSE nl
        hdr_end == IF line_end > 0 /\ Byte(d, line_end - 1) = CR
                   THEN line_end - 1 ELSE line_end
        commas == SelectSeq([k \in 1..hdr_end |-> k - 1],
                            LAMBDA p : Byte(d, p) = COMMA)
        ncols == Len(commas) + 1
        col_start(j) == IF j = 1 THEN 0 ELSE commas[j - 1] + 1
        col_end(j) == IF j = ncols THEN hdr_end ELSE commas[j]
        columns == [j \in 1..ncols |-> trim_csv_field(d, col_start(j), col_end(j))]
    IN  IF hdr_end = 0 THEN NoHeader
        ELSE [is_some |-> TRUE,
              columns |-> columns,
              well_known |-> [j \in 1..ncols |->
                  classify_key(Slice(d, columns[j][1], columns[j][1] + columns[j][2]))]]

num_columns(header) == Len(header.columns)

RECURSIVE ScanCsvQuoted(_, _)
ScanCsvQuoted(line, i) ==  \* <<end, cursor>> of a quoted field whose body starts at i
    IF i < Len(line)
    THEN IF Byte(line, i) = QUOTE
         THEN IF i + 1 < Len(line) /\ Byte(line, i + 1) = QUOTE
              THEN ScanCsvQuoted(line, i + 2)
              ELSE <<i, i + 1>>
         ELSE ScanCsvQuoted(line, i + 1)
    ELSE <<i, i>>

RECURSIVE ScanCsvBare(_, _)
ScanCsvBare(line, i) ==
    IF i < Len(line) /\ Byte(line, i) # COMMA /\ Byte(line, i) # NL /\ Byte(line, i) # CR
    THEN ScanCsvBare(line, i + 1) ELSE i

parse_csv_field(line, i) ==
    IF i >= Len(line) THEN [val_start |-> i, val_end |-> i, i |-> i]
    ELSE IF Byte(line, i) = QUOTE THEN
        LET q == ScanCsvQuoted(line, i + 1)
        IN  [val_start |-> i + 1, val_end |-> q[1], i |-> q[2]]
    ELSE
        LET e == ScanCsvBare(line, i)
        IN  [val_start |-> i, val_end |-> e, i |-> e]

RECURSIVE CsvColumns(_, _, _, _, _, _)
CsvColumns(line, base_offset, header, i, col_idx, batch) ==
    IF i < Len(line) /\ col_idx < num_columns(header)
    THEN LET v == parse_csv_field(line, i)
             col == header.columns[col_idx + 1]
             field_idx == Len(batch.fields)
             pushed == push_field(batch,
                           FieldRef(col[1], col[2],
                                    base_offset + v.val_start, v.val_end - v.val_start))
             i1 == IF v.i < Len(line) /\ Byte(line, v.i) = COMMA THEN v.i + 1 ELSE v.i
         IN  CsvColumns(line, base_offset, header, i1, col_idx + 1,
                        set_well_known(pushed, header.well_known[col_idx + 1], field_idx))
    ELSE batch

parse_csv_line(line, base_offset, header, batch) ==
    IF Len(line) = 0 THEN batch
    ELSE end_record(CsvColumns(line, base_offset, header, 0, 0,
                               begin_record(batch, base_offset, Len(line))))

RECURSIVE CsvLinesFrom(_, _, _, _, _, _)
CsvLinesFrom(d, line_starts, i, end_idx, header, batch) ==
    IF i >= end_idx THEN batch
    ELSE
        LET line_start == line_starts[i + 1]
            line_end == StructLineEnd(d, line_starts, i, TRUE)
            skip == line_start >= Len(d) \/ line_start >= line_end
        IN  CsvLinesFrom(d, line_starts, i + 1, end_idx, header,
                IF skip THEN batch
                ELSE parse_csv_line(Slice(d, line_start, line_end), line_start,
                                    header, batch))

parse_csv_lines_range(d, line_starts, start_idx, end_idx, header, batch) ==
    CsvLinesFrom(d, line_starts, start_idx, end_idx, header, batch)

(***************************************************************************)
(* structured_orchestrator.rs: fused scan + parse of one chunk.            *)
(***************************************************************************)
parse_structured_chunk(d, start, end, format, header) ==
    LET line_starts == ChunkLineStarts(d, start, end, Len(d))
        num_lines == Len(line_starts) - 1
    IN  IF format = "Json"
        THEN parse_json_lines_range(d, line_starts, 0, num_lines, with_capacity)
        ELSE IF format = "Logfmt" \/ format = "PlainText"
        THEN parse_logfmt_lines_range(d, line_starts, 0, num_lines, with_capacity)
        ELSE IF header.is_some
        THEN parse_csv_lines_range(d, line_starts, 0, num_lines, header, with_capacity)
        ELSE with_capacity

parse_structured_chunk_owned(d, format, header) ==
    parse_structured_chunk(d, 0, Len(d), format, header)

(***************************************************************************)
(* Inputs of the orchestrator specifications.                              *)
(***************************************************************************)
(***************************************************************************)
(* format.rs: LogFormat::detect.                                           *)
(***************************************************************************)
\* the UTF-8 byte order mark EF BB BF
BOM == <<239, 187, 191>>

\* the suffix of d after a byte order mark at its start and the white space
\* that follows
skip_whitespace_and_bom(d) ==
    LET start == IF Len(d) >= 3 /\ SubSeq(d, 1, 3) = BOM THEN 3 ELSE 0
        stops == {i \in start..(Len(d) - 1) : Byte(d, i) \notin {SP, TAB, CR, NL}}
    IN  Slice(d, IF stops = {} THEN Len(d) ELSE SetMin(stops), Len(d))

is_logfmt_key_char(b) ==
    \/ (b >= 48 /\ b <= 57) \/ (b >= 65 /\ b <= 90) \/ (b >= 97 /\ b <= 122)
    \/ b = 95 \/ b = 45 \/ b = 46

\* the token loop of detect_logfmt, from cursor i with kv_count pairs seen
RECURSIVE DetectLogfmtLoop(_, _, _)
DetectLogfmtLoop(line, i, kv_count) ==
    LET len == Len(line)
        key_start == SkipSpaces(line, i)
        non_key == {k \in key_start..(len - 1) : ~is_logfmt_key_char(Byte(line, k))}
        key_end == IF non_key = {} THEN len ELSE SetMin(non_key)
        after_eq == key_end + 1
        quoted_end == ScanQuoted(line, after_eq + 1)
        value_end == IF after_eq < len /\ Byte(line, after_eq) = QUOTE
                     THEN IF quoted_end < len THEN quoted_end + 1 ELSE quoted_end
                     ELSE ScanToSpace(line, after_eq)
    IN  IF i >= len THEN FALSE
        ELSE IF key_end = key_start \/ key_end >= len \/ Byte(line, key_end) # EQUALS
        THEN DetectLogfmtLoop(line, ScanToSpace(line, key_end), kv_count)
        ELSE IF kv_count + 1 >= 2 THEN TRUE
        ELSE DetectLogfmtLoop(line, value_end, kv_count + 1)

detect_logfmt(line) == DetectLogfmtLoop(line, 0, 0)

detect_csv(first_line, all_data) ==
    LET count(line, S) == Cardinality({k \in 1..Len(line) : line[k] \in S})
        comma_count == count(first_line, {COMMA})
        alpha_count == count(first_line, (65..90) \cup (97..122) \cup {95})
        rest == Slice(all_data, Len(first_line), Len(all_data))
        start == IF Len(rest) >= 1 /\ rest[1] = NL THEN 1
                 ELSE IF Len(rest) >= 2 /\ rest[1] = CR /\ rest[2] = NL THEN 2
                 ELSE NOT_FOUND
        after_first == Slice(rest, start, Len(rest))
        nl == memchr(NL, after_first)
        second_line == Slice(after_first, 0, IF nl = NOT_FOUND THEN Len(after_first) ELSE nl)
    IN  IF comma_count < 2 THEN FALSE
        ELSE IF alpha_count < Len(first_line) \div 3 THEN FALSE
        ELSE IF Len(first_line) >= Len(all_data) \/ start = NOT_FOUND THEN FALSE
        ELSE count(second_line, {COMMA}) = comma_count

\* a detect that tries the CSV test before the logfmt test
detect_csv_before_logfmt(d) ==
    LET trimmed == skip_whitespace_and_bom(d)
        inner == skip_whitespace_and_bom(Tail(trimmed))
        nl == memchr(NL, trimmed)
        first_line == Slice(trimmed, 0, IF nl = NOT_FOUND THEN Len(trimmed) ELSE nl)
    IN  IF trimmed = <<>> THEN "PlainText"
        ELSE IF trimmed[1] = LBRACE THEN "Json"
        ELSE IF trimmed[1] = LBRACKET /\ Len(trimmed) > 1
                /\ inner # <<>> /\ inner[1] = LBRACE THEN "Json"
        ELSE IF detect_csv(first_line, trimmed) THEN "Csv"
        ELSE IF detect_logfmt(first_line) THEN "Logfmt"
        ELSE "PlainText"

detect(d) ==
    LET trimmed == skip_whitespace_and_bom(d)
        inner == skip_whitespace_and_bom(Tail(trimmed))
        nl == memchr(NL, trimmed)
        first_line == Slice(trimmed, 0, IF nl = NOT_FOUND THEN Len(trimmed) ELSE nl)
    IN  IF trimmed = <<>> THEN "PlainText"
        ELSE IF trimmed[1] = LBRACE THEN "Json"
        ELSE IF trimmed[1] = LBRACKET /\ Len(trimmed) > 1
                /\ inner # <<>> /\ inner[1] = LBRACE THEN "Json"
        ELSE IF detect_logfmt(first_line) THEN "Logfmt"
        ELSE IF detect_csv(first_line, trimmed) THEN "Csv"
        ELSE "PlainText"

\* "Plain" selects parse_logs_pipelined / parse_logs_streamed; the other four
\* are the format hints of parse_structured_mmap / parse_structured_streamed
Formats == {"Plain", "PlainText", "Json", "Logfmt", "Csv"}

Alphabet(f) ==
    IF f = "Plain" THEN {NL, SP, LOWER_T}
    ELSE IF f = "Json" THEN {NL, LBRACE, QUOTE, BACKSLASH}
    ELSE IF f = "Csv" THEN {NL, COMMA, LOWER_T}
    ELSE {NL, EQUALS, LOWER_T}

Buffers(f) == UNION {[1..n -> Alphabet(f)] : n \in 0..MaxLen}

NoBatch == [none |-> TRUE]

\* a run that is not a call of a scanner kernel
NoScan == [global_base |-> 0, data_total_len |-> 0, line_starts |-> <<>>]

\* an input that was not written from tokens
NoTokens == [members |-> <<>>, cut |-> 0, spaced |-> FALSE]

(***************************************************************************)
(* orchestrator.rs / structured_orchestrator.rs: mmap mode.                *)
(***************************************************************************)
\* A faulty chunker: the boundary is put at pos, wherever in a line that is.
RECURSIVE ChunkerLoopUnaligned(_, _, _, _)
ChunkerLoopUnaligned(d, csize, pos, acc) ==
    IF pos < Len(d)
    THEN ChunkerLoopUnaligned(d, csize, pos + csize, Append(acc, pos))
    ELSE acc

\* the chunker: while pos < data.len() { memchr(b'\n', &data[pos..]) ... }
RECURSIVE ChunkerLoop(_, _, _, _)
ChunkerLoop(d, csize, pos, acc) ==
    IF pos < Len(d)
    THEN LET off == memchr(NL, Slice(d, pos, Len(d)))
         IN  IF off = NOT_FOUND THEN acc
             ELSE ChunkerLoop(d, csize, pos + off + 1 + csize, Append(acc, pos + off + 1))
    ELSE acc

ChunkBoundaries(d, csize) == Append(ChunkerLoop(d, csize, csize, <<0>>), Len(d))

\* A faulty worker count: as many workers as requested, however few chunks.
WorkerThreadsUncapped(requested, num_chunks) == Max2(requested, 1)

WorkerThreads(requested, num_chunks) == Min2(Max2(requested, 1), Max2(num_chunks, 1))

\* A faulty partition: every worker takes floor(C / W) chunks, so the
\* remainder chunks are given to nobody.
AssignmentTruncating(worker_idx, num_chunks, worker_threads) ==
    LET per_worker == num_chunks \div worker_threads
    IN  [j \in 1..per_worker |-> worker_idx * per_worker + j - 1]

\* chunk indices (0-based) of worker k (0-based)
Assignment(worker_idx, num_chunks, worker_threads) ==
    LET start_chunk == (worker_idx * num_chunks) \div worker_threads
        end_chunk == ((worker_idx + 1) * num_chunks) \div worker_threads
    IN  [j \in 1..(end_chunk - start_chunk) |-> start_chunk + j - 1]

\* parse_csv_mmap hands the bytes after the header line to parse_format_mmap
MmapHeader(d, f) == IF f = "Csv" THEN CsvHeaderParse(d) ELSE NoHeader
MmapBody(d, f) == IF f = "Csv" THEN Slice(d, header_end_offset(d), Len(d)) ELSE d

\* parse_chunk / parse_structured_chunk of chunk i (0-based) of the call
ParseChunkOf(d, f, bnds, i) ==
    IF f = "Plain"
    THEN parse_chunk(d, bnds[i + 1], bnds[i + 2], Len(d))
    ELSE parse_structured_chunk(MmapBody(d, f), bnds[i + 1], bnds[i + 2], f,
                                MmapHeader(d, f))

TotalFields(batches) == SumSeq([k \in 1..Len(batches) |-> Len(batches[k].fields)])
TotalLen(batches) == SumSeq([k \in 1..Len(batches) |-> batches[k].len])

PipelineResult(batches, total_lines, backing) ==
    [batches |-> batches, total_lines |-> total_lines, _backing_data |-> backing]

StructuredPipelineResult(batches, total_records, total_fields, format, backing) ==
    [batches |-> batches, total_records |-> total_records,
     total_fields |-> total_fields, format |-> format, _backing_data |-> backing]

\* the format parse_structured_mmap hands to parse_format_mmap:
\* LogFormat::PlainText => parse_logfmt_mmap, which passes LogFormat::Logfmt
MmapFormat(hint) == IF hint = "PlainText" THEN "Logfmt" ELSE hint

MmapResult(f, batches) ==
    IF f = "Plain" THEN PipelineResult(batches, TotalLen(batches), <<>>)
    ELSE StructuredPipelineResult(batches, TotalLen(batches), TotalFields(batches),
                                  MmapFormat(f), <<>>)

EmptyResult(f, format) ==
    IF f = "Plain" THEN PipelineResult(<<>>, 0, <<>>)
    ELSE StructuredPipelineResult(<<>>, 0, 0, format, <<>>)

\* the early returns: empty buffer, or (CSV) nothing after the header line
MmapIsEmpty(d, f) == Len(d) = 0 \/ (f = "Csv" /\ header_end_offset(d) >= Len(d))

\* the single-threaded path: for i in 0..num_chunks { parse chunk i; push }
SequentialBatches(d, f, bnds) ==
    [k \in 1..(Len(bnds) - 1) |-> ParseChunkOf(d, f, bnds, k - 1)]

AnyPanicked(batches) == \E k \in 1..Len(batches) : batches[k].panicked

\* ordered_batches.into_iter().flatten()
FlattenOrdered(ordered) == SelectSeq(ordered, LAMBDA b : b # NoBatch)

\* A faulty reassembly: each batch is stored at its position in the worker's
\* own list instead of at its chunk index.
StoreResultsByLocalIndex(ordered, worker_results) ==
    [c \in 1..Len(ordered) |->
        IF c <= Len(worker_results) THEN worker_results[c][2] ELSE ordered[c]]

\* for (chunk_idx, batch) in worker_results { ordered_batches[chunk_idx] = Some(batch) }
RECURSIVE StoreResults(_, _)
StoreResults(ordered, worker_results) ==
    IF worker_results = <<>> THEN ordered
    ELSE StoreResults([ordered EXCEPT ![Head(worker_results)[1] + 1] =
                                          Head(worker_results)[2]],
                      Tail(worker_results))

StreamIdle ==
    /\ file_pos = 0 /\ filled = 0 /\ leftover = <<>>
    /\ csv_header = NoHeader /\ regions = <<>> /\ read_errors = 0
    /\ tokens = NoTokens
    /\ scan_args = NoScan

MmapIdle ==
    /\ boundaries = <<>> /\ assignments = <<>> /\ local = <<>>
    /\ wstate = <<>> /\ finish_order = <<>> /\ joined = 0 /\ ordered_batches = <<>>

Init ==
    /\ fmt \in Formats
    /\ data \in Buffers(fmt)
    /\ chunk_size \in 1..MaxChunk
    /\ num_threads \in 0..MaxThreads
    /\ pc = "start"
    /\ result = NoBatch
    /\ MmapIdle
    /\ StreamIdle

StartEmpty ==
    /\ pc = "start"
    /\ MmapIsEmpty(data, fmt)
    /\ result' = EmptyResult(fmt, IF Len(data) = 0 THEN "PlainText" ELSE fmt)
    /\ pc' = "done"
    /\ UNCHANGED <<data, fmt, chunk_size, num_threads, boundaries, assignments, local,
                   wstate, finish_order, joined, ordered_batches, file_pos, filled,
                   leftover, csv_header, regions,
                   read_errors, tokens, scan_args>>

StartSequential ==
    /\ pc = "start"
    /\ ~MmapIsEmpty(data, fmt)
    /\ LET bnds == ChunkBoundaries(MmapBody(data, fmt), chunk_size)
           num_chunks == Len(bnds) - 1
           batches == SequentialBatches(data, fmt, bnds)
       IN  /\ WorkerThreads(num_threads, num_chunks) = 1 \/ num_chunks <= 1
           /\ boundaries' = bnds
           /\ IF AnyPanicked(batches)
              THEN pc' = "panicked" /\ result' = result
              ELSE pc' = "done" /\ result' = MmapResult(fmt, batches)
    /\ UNCHANGED <<data, fmt, chunk_size, num_threads, assignments, local,
                   wstate, finish_order, joined, ordered_batches, file_pos, filled,
                   leftover, csv_header, regions,
                   read_errors, tokens, scan_args>>

StartParallel ==
    /\ pc = "start"
    /\ ~MmapIsEmpty(data, fmt)
    /\ LET bnds == ChunkBoundaries(MmapBody(data, fmt), chunk_size)
           num_chunks == Len(bnds) - 1
           worker_threads == WorkerThreads(num_threads, num_chunks)
       IN  /\ ~(worker_threads = 1 \/ num_chunks <= 1)
           /\ boundaries' = bnds
           /\ assignments' = [w \in 1..worker_threads |->
                                 Assignment(w - 1, num_chunks, worker_threads)]
           /\ local' = [w \in 1..worker_threads |-> <<>>]
           /\ wstate' = [w \in 1..worker_threads |-> "running"]
           /\ ordered_batches' = [c \in 1..num_chunks |-> NoBatch]
    /\ joined' = 0
    /\ pc' = "workers"
    /\ UNCHANGED <<data, fmt, chunk_size, num_threads, finish_order, result, file_pos,
                   filled, leftover, csv_header, regions,
                   read_errors, tokens, scan_args>>

\* one iteration of a worker's loop over its chunks
WorkerParse(w) ==
    /\ pc \in {"workers", "unwinding"}
    /\ wstate[w] = "running"
    /\ Len(local[w]) < Len(assignments[w])
    /\ LET chunk_idx == assignments[w][Len(local[w]) + 1]
           batch == ParseChunkOf(data, fmt, boundaries, chunk_idx)
       IN  IF batch.panicked
           THEN /\ wstate' = [wstate EXCEPT ![w] = "panicked"]
                /\ finish_order' = Append(finish_order, w)
                /\ local' = local
           ELSE /\ local' = [local EXCEPT ![w] = Append(@, <<chunk_idx, batch>>)]
                /\ UNCHANGED <<wstate, finish_order>>
    /\ UNCHANGED <<data, fmt, chunk_size, num_threads, pc, boundaries, assignments,
                   joined, ordered_batches, result, file_pos, filled, leftover,
                   csv_header, regions,
                   read_errors, tokens, scan_args>>

\* the worker's closure returns (local, worker_scan_ms, worker_parse_ms)
WorkerReturn(w) ==
    /\ pc \in {"workers", "unwinding"}
    /\ wstate[w] = "running"
    /\ Len(local[w]) = Len(assignments[w])
    /\ wstate' = [wstate EXCEPT ![w] = "finished"]
    /\ finish_order' = Append(finish_order, w)
    /\ UNCHANGED <<data, fmt, chunk_size, num_threads, pc, boundaries, assignments,
                   local, joined, ordered_batches, result, file_pos, filled, leftover,
                   csv_header, regions,
                   read_errors, tokens, scan_args>>

\* handle.join() of the next handle, in spawn order; after the last one the
\* batches are reassembled and the call returns
Join ==
    /\ pc = "workers"
    /\ joined < Len(wstate)
    /\ wstate[joined + 1] = "finished"
    /\ joined' = joined + 1
    /\ ordered_batches' = StoreResults(ordered_batches, local[joined + 1])
    /\ IF joined + 1 = Len(wstate)
       THEN /\ pc' = "done"
            /\ result' = MmapResult(fmt, FlattenOrdered(ordered_batches'))
       ELSE /\ pc' = "workers"
            /\ result' = result
    /\ UNCHANGED <<data, fmt, chunk_size, num_threads, boundaries, assignments, local,
                   wstate, finish_order, file_pos, filled, leftover, csv_header,
                   regions,
                   read_errors, tokens, scan_args>>

\* handle.join().expect(..) on a worker that panicked
JoinPanicked ==
    /\ pc = "workers"
    /\ joined < Len(wstate)
    /\ wstate[joined + 1] = "panicked"
    /\ pc' = "unwinding"
    /\ UNCHANGED <<data, fmt, chunk_size, num_threads, boundaries, assignments, local,
                   wstate, finish_order, joined, ordered_batches, result, file_pos,
                   filled, leftover, csv_header, regions,
                   read_errors, tokens, scan_args>>

\* A scope that would let the panic out while threads are still running.
ScopeNotWaiting == TRUE

\* thread::scope joins every thread it spawned before it returns or unwinds
ScopeThreadsEnded == \A w \in 1..Len(wstate) : wstate[w] # "running"

\* thread::scope waits for every spawned thread, then resumes the panic
ScopeUnwind ==
    /\ pc = "unwinding"
    /\ ScopeThreadsEnded
    /\ pc' = "panicked"
    /\ UNCHANGED <<data, fmt, chunk_size, num_threads, boundaries, assignments, local,
                   wstate, finish_order, joined, ordered_batches, result, file_pos,
                   filled, leftover, csv_header, regions,
                   read_errors, tokens, scan_args>>

Next ==
    \/ StartEmpty
    \/ StartSequential
    \/ StartParallel
    \/ \E w \in 1..Len(wstate) : WorkerParse(w)
    \/ \E w \in 1..Len(wstate) : WorkerReturn(w)
    \/ Join
    \/ JoinPanicked
    \/ ScopeUnwind

Spec == Init /\ [][Next]_vars

(***************************************************************************)
(* orchestrator.rs / structured_orchestrator.rs: streaming mode.           *)
(* chunk_size is the segment size here: PANDORA_CHUNK_MB sets both.  The   *)
(* file holds `data`; file_pos is the read position of the file handle.    *)
(***************************************************************************)
mmapVars == <<boundaries, assignments, local, wstate, finish_order, joined,
              ordered_batches>>

\* read_buf[..filled]: what read_full has put in the segment buffer so far
ReadBuf == Slice(data, file_pos - filled, file_pos)

\* read_full returns when the buffer is full, when read() returns 0 (end of
\* file), or with the error of a failed read()
ReadFullReturned ==
    \/ pc = "read_error"
    \/ pc = "reading" /\ (filled = chunk_size \/ file_pos = Len(data))

\* A faulty carry: the unterminated tail of the previous segment is forgotten.
CombineDroppingLeftover(left, read) == read

\* work_buf: the read bytes, after the leftover of the previous iteration if any
CombineWorkBuf(left, read) == left \o read

\* A faulty cut: the region ends after the first newline, not the last.
complete_end_first_newline(work_buf, at_eof) ==
    IF at_eof THEN Len(work_buf)
    ELSE LET pos == memchr(NL, work_buf)
         IN  IF pos = NOT_FOUND THEN NOT_FOUND ELSE pos + 1

\* A faulty cut: a region ends with a newline also at the end of the file.
complete_end_ignoring_eof(work_buf, at_eof) ==
    LET pos == memrchr(NL, work_buf)
    IN  IF pos = NOT_FOUND THEN NOT_FOUND ELSE pos + 1

\* complete_end; NOT_FOUND stands for the `None => { leftover = work_buf; continue }` arm
complete_end(work_buf, at_eof) ==
    IF at_eof THEN Len(work_buf)
    ELSE LET pos == memrchr(NL, work_buf)
         IN  IF pos = NOT_FOUND THEN NOT_FOUND ELSE pos + 1

\* parse_logs_streamed: total_lines += batch.len; only the first batch and
\* its buffer are pushed (if result_batches.is_empty())
LogsAccumulate(res, batch, work_buf) ==
    [res EXCEPT !.total_lines = @ + batch.len,
                !.batches = IF res.batches = <<>> THEN <<batch>> ELSE @,
                !._backing_data = IF res.batches = <<>> THEN <<work_buf>> ELSE @]

\* parse_structured_streamed: totals are added, batch and buffer are pushed
StructuredAccumulate(res, batch, work_buf) ==
    [res EXCEPT !.total_records = @ + batch.len,
                !.total_fields = @ + Len(batch.fields),
                !.batches = Append(@, batch),
                !._backing_data = Append(@, work_buf)]

InitStream ==
    /\ fmt \in Formats
    /\ data \in Buffers(fmt)
    /\ chunk_size \in 1..MaxChunk
    /\ num_threads = 1
    /\ pc = "open"
    /\ result = NoBatch
    /\ MmapIdle
    /\ StreamIdle

\* entry of parse_logs_streamed / parse_structured_streamed
StreamOpen ==
    /\ pc = "open"
    /\ IF Len(data) = 0
       THEN pc' = "returned" /\ result' = EmptyResult(fmt, "PlainText")
       ELSE pc' = "reading" /\ result' = EmptyResult(fmt, fmt)
    /\ UNCHANGED <<data, fmt, chunk_size, num_threads, mmapVars, file_pos, filled,
                   leftover, csv_header, regions,
                   read_errors, tokens, scan_args>>

\* one reader.read() inside read_full that returns n > 0 bytes
ReadSome(n) ==
    /\ pc = "reading"
    /\ filled + n <= chunk_size
    /\ file_pos + n <= Len(data)
    /\ filled' = filled + n
    /\ file_pos' = file_pos + n
    /\ UNCHANGED <<data, fmt, chunk_size, num_threads, pc, mmapVars, result,
                   leftover, csv_header, regions,
                   read_errors, tokens, scan_args>>

\* a reader.read() inside read_full fails: `?` returns the error, the bytes
\* this read_full had already put in the buffer are forgotten, and
\* unwrap_or(0) turns the error into bytes_read = 0
ReadError ==
    /\ pc = "reading"
    /\ filled < chunk_size
    /\ read_errors < MaxReadErrors
    /\ filled' = 0
    /\ read_errors' = read_errors + 1
    /\ pc' = "read_error"
    /\ UNCHANGED <<data, fmt, chunk_size, num_threads, mmapVars, result, file_pos,
                   leftover, csv_header, regions, tokens, scan_args>>

\* the body of the loop of parse_logs_streamed, once read_full has returned
LogsStreamedIterate ==
    /\ fmt = "Plain"
    /\ ReadFullReturned
    /\ LET at_eof == filled < chunk_size
           work_buf == CombineWorkBuf(leftover, ReadBuf)
           ce == complete_end(work_buf, at_eof)
       IN  IF work_buf = <<>>
           THEN pc' = "returned" /\ UNCHANGED <<leftover, regions, result>>
           ELSE IF ce = NOT_FOUND
           THEN leftover' = work_buf /\ pc' = "reading" /\ UNCHANGED <<regions, result>>
           ELSE LET region == Slice(work_buf, 0, ce)
                IN  /\ leftover' = Slice(work_buf, ce, Len(work_buf))
                    /\ IF region = <<>>
                       THEN /\ pc' = IF at_eof THEN "returned" ELSE "reading"
                            /\ UNCHANGED <<regions, result>>
                       ELSE /\ regions' = Append(regions, region)
                            /\ result' = LogsAccumulate(result, parse_owned_chunk(region),
                                                        region)
                            /\ pc' = "reading"
    /\ filled' = 0
    /\ UNCHANGED <<data, fmt, chunk_size, num_threads, mmapVars, file_pos, csv_header,
                   read_errors, tokens, scan_args>>

\* the body of the loop of parse_structured_streamed, once read_full has returned
StructuredStreamedIterate ==
    /\ fmt # "Plain"
    /\ ReadFullReturned
    /\ LET at_eof == filled < chunk_size
           combined == CombineWorkBuf(leftover, ReadBuf)
           parse_header == fmt = "Csv" /\ ~csv_header.is_some
           header == IF parse_header THEN CsvHeaderParse(combined) ELSE csv_header
           strip == parse_header /\ header.is_some
           header_end == header_end_offset(combined)
           work_buf == IF strip THEN Slice(combined, header_end, Len(combined))
                       ELSE combined
           ce == complete_end(work_buf, at_eof)
           region == Slice(work_buf, 0, ce)
           batch == parse_structured_chunk_owned(region, fmt, header)
       IN  IF combined = <<>>
           THEN /\ pc' = "returned"
                /\ filled' = 0
                /\ UNCHANGED <<leftover, csv_header, regions, result>>
           ELSE IF strip /\ header_end >= Len(combined)
           THEN /\ csv_header' = header
                /\ leftover' = <<>>
                /\ filled' = 0
                /\ pc' = "reading" /\ UNCHANGED <<regions, result>>
           ELSE IF ce = NOT_FOUND
           THEN /\ csv_header' = header
                /\ leftover' = work_buf
                /\ filled' = 0
                /\ pc' = "reading" /\ UNCHANGED <<regions, result>>
           ELSE IF region = <<>>
           THEN /\ csv_header' = header
                /\ leftover' = Slice(work_buf, ce, Len(work_buf))
                /\ filled' = 0
                /\ pc' = IF at_eof THEN "returned" ELSE "reading"
                /\ UNCHANGED <<regions, result>>
           ELSE IF batch.panicked
           THEN /\ pc' = "aborted"
                /\ UNCHANGED <<filled, leftover, csv_header, regions, result>>
           ELSE /\ csv_header' = header
                /\ leftover' = Slice(work_buf, ce, Len(work_buf))
                /\ filled' = 0
                /\ regions' = Append(regions, region)
                /\ result' = StructuredAccumulate(result, batch, region)
                /\ pc' = IF at_eof THEN "returned" ELSE "reading"
    /\ UNCHANGED <<data, fmt, chunk_size, num_threads, mmapVars, file_pos,
                   read_errors, tokens, scan_args>>

NextStream ==
    \/ StreamOpen
    \/ \E n \in 1..MaxChunk : ReadSome(n)
    \/ ReadError
    \/ LogsStreamedIterate
    \/ StructuredStreamedIterate

SpecStream == InitStream /\ [][NextStream]_vars

(***************************************************************************)
(* The JSON, logfmt and CSV parsers applied to one owned buffer.            *)
(***************************************************************************)
LineAlphabet(f) ==
    IF f = "Json" THEN {NL, LBRACE, QUOTE, COLON, BACKSLASH, LOWER_T}
    ELSE IF f = "Csv" THEN {NL, COMMA, QUOTE, SP, LOWER_T}
    ELSE {NL, SP, EQUALS, QUOTE, BACKSLASH, LOWER_T}

LineBuffers(f) == UNION {[1..n -> LineAlphabet(f)] : n \in 0..MaxLine}

\* the headers of the CSV runs: the header lines "t", "t," and ",t,t"
CsvHeaders ==
    {CsvHeaderParse(h) : h \in {<<LOWER_T>>, <<LOWER_T, COMMA>>,
                                <<COMMA, LOWER_T, COMMA, LOWER_T>>}}

InitParse ==
    /\ fmt \in {"Json", "Logfmt", "Csv"}
    /\ data \in LineBuffers(fmt)
    /\ csv_header \in (IF fmt = "Csv" THEN CsvHeaders ELSE {NoHeader})
    /\ chunk_size = 1
    /\ num_threads = 1
    /\ pc = "input"
    /\ result = NoBatch
    /\ MmapIdle
    /\ file_pos = 0 /\ filled = 0 /\ leftover = <<>>
    /\ regions = <<>> /\ read_errors = 0
    /\ tokens = NoTokens
    /\ scan_args = NoScan

\* parse_structured_chunk_owned(&data, format, csv_header.as_ref(), _)
ParseOwned ==
    /\ pc = "input"
    /\ LET batch == parse_structured_chunk_owned(data, fmt, csv_header)
       IN  IF batch.panicked
           THEN pc' = "parse_panicked" /\ result' = result
           ELSE pc' = "parsed" /\ result' = batch
    /\ UNCHANGED <<data, fmt, chunk_size, num_threads, mmapVars, file_pos, filled,
                   leftover, csv_header, regions,
                   read_errors, tokens, scan_args>>

NextParse == ParseOwned

SpecParse == InitParse /\ [][NextParse]_vars

(***************************************************************************)
(* These parsers and the plain-text parser on buffers whose first line     *)
(* ends with CR LF:                                                        *)
(* a first line of up to MaxCrlfLine bytes, CR LF, and possibly a second   *)
(* line of at most one byte that ends with nothing, LF or CR LF.           *)
(***************************************************************************)
CrlfBuffers(f) ==
    LET bytes == LineAlphabet(f) \ {NL}
        rest == {<<>>} \cup {second \o ending :
                                second \in {<<>>} \cup {<<b>> : b \in bytes},
                                ending \in {<<>>, <<NL>>, <<CR, NL>>}}
    IN  {first \o <<CR, NL>> \o r :
            first \in UNION {[1..n -> bytes] : n \in 0..MaxCrlfLine}, r \in rest}

InitCrlf ==
    /\ fmt \in {"Plain", "Json", "Logfmt", "Csv"}
    /\ data \in CrlfBuffers(fmt)
    /\ csv_header \in (IF fmt = "Csv" THEN CsvHeaders ELSE {NoHeader})
    /\ chunk_size = 1
    /\ num_threads = 1
    /\ pc = IF fmt = "Plain" THEN "plain_input" ELSE "input"
    /\ result = NoBatch
    /\ MmapIdle
    /\ file_pos = 0 /\ filled = 0 /\ leftover = <<>>
    /\ regions = <<>> /\ read_errors = 0
    /\ tokens = NoTokens
    /\ scan_args = NoScan

\* parse_owned_chunk(data, _): the plain-text parser on one owned buffer
ParsePlainOwned ==
    /\ pc = "plain_input"
    /\ pc' = "plain_parsed"
    /\ result' = parse_owned_chunk(data)
    /\ UNCHANGED <<data, fmt, chunk_size, num_threads, mmapVars, file_pos, filled,
                   leftover, csv_header, regions, read_errors, tokens, scan_args>>

NextCrlf == ParseOwned \/ ParsePlainOwned

SpecCrlf == InitCrlf /\ [][NextCrlf]_vars

(***************************************************************************)
(* The JSON and logfmt parsers applied to well-formed input: one or two    *)
(* lines written from key/value tokens.  tokens.members are the tokens in  *)
(* order, the first tokens.cut of them are on the first line and the rest  *)
(* on a second line (cut = number of members + 1: a single line), and      *)
(* tokens.spaced puts a space after every ':' and ',' of a JSON line.      *)
(***************************************************************************)
\* t, lvl, msg, tag (one key of each well-known vocabulary) and x
RecordKeys ==
    {<<116>>, <<108, 118, 108>>, <<109, 115, 103>>, <<116, 97, 103>>, <<120>>}

\* "v"   1   {"t":{"x":"}"}}   [["]"],"\"",{"t":1}]
JsonValues ==
    {[kind |-> "string", text |-> <<QUOTE, 118, QUOTE>>],
     [kind |-> "bare", text |-> <<49>>],
     [kind |-> "nested",
      text |-> <<LBRACE, QUOTE, 116, QUOTE, COLON,
                 LBRACE, QUOTE, 120, QUOTE, COLON, QUOTE, RBRACE, QUOTE, RBRACE,
                 RBRACE>>],
     [kind |-> "nested",
      text |-> <<LBRACKET,
                 LBRACKET, QUOTE, RBRACKET, QUOTE, RBRACKET, COMMA,
                 QUOTE, BACKSLASH, QUOTE, QUOTE, COMMA,
                 LBRACE, QUOTE, 116, QUOTE, COLON, 49, RBRACE,
                 RBRACKET>>]}

\* v   (empty)   a=b
LogfmtValues ==
    {[kind |-> "bare", text |-> <<118>>],
     [kind |-> "bare", text |-> <<>>],
     [kind |-> "bare", text |-> <<97, EQUALS, 98>>]}

MemberSet(f) ==
    {[key |-> k, value |-> v] :
        k \in RecordKeys, v \in (IF f = "Json" THEN JsonValues ELSE LogfmtValues)}

\* the bytes a parser is to report as the value of a member
ValueBytes(v) ==
    IF v.kind = "string" THEN SubSeq(v.text, 2, Len(v.text) - 1) ELSE v.text

RECURSIVE JoinJson(_, _)
JoinJson(ms, spaced) ==
    IF ms = <<>> THEN <<>>
    ELSE <<QUOTE>> \o Head(ms).key \o <<QUOTE, COLON>>
         \o (IF spaced THEN <<SP>> ELSE <<>>) \o Head(ms).value.text
         \o (IF Len(ms) > 1
             THEN <<COMMA>> \o (IF spaced THEN <<SP>> ELSE <<>>)
                  \o JoinJson(Tail(ms), spaced)
             ELSE <<>>)

RECURSIVE JoinLogfmt(_)
JoinLogfmt(ms) ==
    IF ms = <<>> THEN <<>>
    ELSE Head(ms).key \o <<EQUALS>> \o Head(ms).value.text
         \o (IF Len(ms) > 1 THEN <<SP>> \o JoinLogfmt(Tail(ms)) ELSE <<>>)

RenderLine(f, ms, spaced) ==
    IF f = "Json" THEN <<LBRACE>> \o JoinJson(ms, spaced) \o <<RBRACE>>
    ELSE JoinLogfmt(ms)

\* the members of line 1 and of line 2 of a token-built input
TokenLines(tk) ==
    IF tk.cut > Len(tk.members) THEN <<tk.members>>
    ELSE <<SubSeq(tk.members, 1, tk.cut),
           SubSeq(tk.members, tk.cut + 1, Len(tk.members))>>

RenderTokens(f, tk) ==
    LET ls == TokenLines(tk)
    IN  IF Len(ls) = 1 THEN RenderLine(f, ls[1], tk.spaced)
        ELSE RenderLine(f, ls[1], tk.spaced) \o <<NL>>
             \o RenderLine(f, ls[2], tk.spaced)

\* tk is a token-built input of format f
IsTokenInput(f, tk) ==
    \E n \in 0..MaxMembers :
        \E ms \in [1..n -> MemberSet(f)] :
            \E c \in 0..(n + 1) :
                \E sp \in (IF f = "Json" THEN BOOLEAN ELSE {FALSE}) :
                    tk = [members |-> ms, cut |-> c, spaced |-> sp]

InitRecords ==
    /\ fmt \in {"Json", "Logfmt"}
    /\ IsTokenInput(fmt, tokens)
    /\ scan_args = NoScan
    /\ data = RenderTokens(fmt, tokens)
    /\ csv_header = NoHeader
    /\ chunk_size = 1
    /\ num_threads = 1
    /\ pc = "input"
    /\ result = NoBatch
    /\ MmapIdle
    /\ file_pos = 0 /\ filled = 0 /\ leftover = <<>>
    /\ regions = <<>> /\ read_errors = 0

SpecRecords == InitRecords /\ [][NextParse]_vars

(***************************************************************************)
(* The scanner kernels applied to one slice.  The slice has a length at or *)
(* next to a multiple of the narrowest vector, so that every loop of every *)
(* kernel is entered and left; its newlines are none, all, one at any      *)
(* position, or two adjacent ones at any position.                         *)
(***************************************************************************)
ScanLens == {n \in 0..MaxScanLen : n % YMM_WIDTH \in {0, 1, YMM_WIDTH - 1}}

NewlineSets(len) ==
    {{}, 0..(len - 1)}
        \cup {{p} : p \in 0..(len - 1)}
        \cup {{p, p + 1} : p \in 0..(len - 2)}

\* the slice ends where the buffer ends, before it, or (a caller's mistake)
\* after it; line_starts may already hold entries
ScanCalls(len) ==
    {[global_base |-> 0, data_total_len |-> len, line_starts |-> <<0>>],
     [global_base |-> 5, data_total_len |-> 5 + len + 1, line_starts |-> <<0, 3>>],
     [global_base |-> 5, data_total_len |-> 5 + len - 2, line_starts |-> <<>>]}

InitScan ==
    /\ \E len \in ScanLens :
          /\ \E nls \in NewlineSets(len) :
                data = [k \in 1..len |-> IF (k - 1) \in nls THEN NL ELSE LOWER_T]
          /\ scan_args \in ScanCalls(len)
    /\ fmt = "Plain"
    /\ chunk_size = 1
    /\ num_threads = 1
    /\ pc = "scan_input"
    /\ result = NoBatch
    /\ MmapIdle
    /\ file_pos = 0 /\ filled = 0 /\ leftover = <<>>
    /\ csv_header = NoHeader /\ regions = <<>> /\ read_errors = 0
    /\ tokens = NoTokens

\* the three kernels on the same arguments
ScanRegion ==
    /\ pc = "scan_input"
    /\ pc' = "scanned"
    /\ result' =
          [scalar |-> scan_args.line_starts
                      \o scan_region_scalar(data, scan_args.global_base,
                                            scan_args.data_total_len),
           avx2 |-> scan_region_avx2(data, scan_args.global_base,
                                     scan_args.data_total_len, scan_args.line_starts),
           avx512 |-> scan_region_avx512(data, scan_args.global_base,
                                         scan_args.data_total_len,
                                         scan_args.line_starts)]
    /\ UNCHANGED <<data, fmt, chunk_size, num_threads, mmapVars, file_pos, filled,
                   leftover, csv_header, regions, read_errors, tokens, scan_args>>

NextScan == ScanRegion

SpecScan == InitScan /\ [][NextScan]_vars

(***************************************************************************)
(* classify_key applied to one key: every vocabulary entry, as written, in *)
(* upper case, with one byte moved down by 32 (a letter changes case, any  *)
(* other byte changes), with a byte added or removed at either end, with   *)
(* its first byte replaced by each byte the dispatch knows, and padded to  *)
(* the 64 bytes of the lowering buffer and one past them.                  *)
(***************************************************************************)
AllNames ==
    {TIMESTAMP_NAMES[k] : k \in 1..Len(TIMESTAMP_NAMES)}
        \cup {LEVEL_NAMES[k] : k \in 1..Len(LEVEL_NAMES)}
        \cup {MESSAGE_NAMES[k] : k \in 1..Len(MESSAGE_NAMES)}
        \cup {COMPONENT_NAMES[k] : k \in 1..Len(COMPONENT_NAMES)}

ClassifyKeys ==
    LET pad(n, total) == n \o [i \in 1..(total - Len(n)) |-> 120]
        upper(n) == [i \in 1..Len(n) |->
                        IF n[i] >= 97 /\ n[i] <= 122 THEN n[i] - 32 ELSE n[i]]
    IN  {<<>>, pad(<<>>, 64), pad(<<>>, 65)}
            \cup AllNames
            \cup {upper(n) : n \in AllNames}
            \cup {pad(n, 64) : n \in AllNames}
            \cup {pad(upper(n), 65) : n \in AllNames}
            \cup {Tail(n) : n \in AllNames}
            \cup {SubSeq(n, 1, Len(n) - 1) : n \in AllNames}
            \cup {<<120>> \o n : n \in AllNames}
            \cup {n \o <<120>> : n \in AllNames}
            \cup UNION {{[n EXCEPT ![i] = n[i] - 32] : i \in 1..Len(n)} : n \in AllNames}
            \cup UNION {{[n EXCEPT ![1] = c] :
                            c \in {116, 64, 100, 99, 101, 108, 109, 115, 112, 98, 110, 120}} :
                        n \in AllNames}

InitClassify ==
    /\ data \in ClassifyKeys
    /\ fmt = "Plain"
    /\ chunk_size = 1
    /\ num_threads = 1
    /\ pc = "key"
    /\ result = NoBatch
    /\ MmapIdle
    /\ StreamIdle

Classify ==
    /\ pc = "key"
    /\ pc' = "classified"
    /\ result' = [kind |-> classify_key(data)]
    /\ UNCHANGED <<data, fmt, chunk_size, num_threads, mmapVars, file_pos, filled,
                   leftover, csv_header, regions, read_errors, tokens, scan_args>>

SpecClassify == InitClassify /\ [][Classify]_vars

(***************************************************************************)
(* parse_timestamp_fast applied to one date-time YYYY-MM-DDTHH:MM:SSZ.     *)
(* tokens holds the date-time the 20 bytes were written from: every year   *)
(* from 1583 to 9999 with the first day, the days around the end of        *)
(* February and the last day, the years around 1970 and the century years  *)
(* 2000 and 2100 with every day; and inputs cut short of 20 bytes.         *)
(***************************************************************************)
DaysInMonth(y, m) ==
    IF m = 2
    THEN IF (y % 4 = 0 /\ y % 100 # 0) \/ y % 400 = 0 THEN 29 ELSE 28
    ELSE IF m \in {4, 6, 9, 11} THEN 30 ELSE 31

TimestampDates(y) ==
    IF y \in {1969, 1970, 1972, 2000, 2100}
    THEN {<<m, d>> \in (1..12) \X (1..31) : d <= DaysInMonth(y, m)}
    ELSE {<<1, 1>>, <<2, DaysInMonth(y, 2)>>, <<3, 1>>, <<12, 31>>}

RenderDateTime(t) ==
    LET d2(n) == <<48 + (n \div 10), 48 + (n % 10)>>
    IN  <<48 + (t.year \div 1000), 48 + ((t.year \div 100) % 10),
          48 + ((t.year \div 10) % 10), 48 + (t.year % 10), 45>>
            \o d2(t.month) \o <<45>> \o d2(t.day) \o <<84>>
            \o d2(t.hour) \o <<COLON>> \o d2(t.min) \o <<COLON>> \o d2(t.sec)
            \o <<90>>

InitTimestamp ==
    /\ \E y \in 1583..9999 :
          \E md \in TimestampDates(y) :
              \E hms \in (IF md = <<1, 1>>
                          THEN {<<0, 0, 0>>, <<12, 34, 56>>, <<23, 59, 59>>}
                          ELSE {<<23, 59, 59>>}) :
                  /\ tokens = [year |-> y, month |-> md[1], day |-> md[2],
                               hour |-> hms[1], min |-> hms[2], sec |-> hms[3]]
                  /\ \E len \in (IF md = <<12, 31>> THEN {0, 19, 20} ELSE {20}) :
                        data = SubSeq(RenderDateTime(tokens), 1, len)
    /\ fmt = "Plain"
    /\ chunk_size = 1
    /\ num_threads = 1
    /\ pc = "date_time"
    /\ result = NoBatch
    /\ MmapIdle
    /\ file_pos = 0 /\ filled = 0 /\ leftover = <<>>
    /\ csv_header = NoHeader /\ regions = <<>> /\ read_errors = 0
    /\ scan_args = NoScan

ParseTimestamp ==
    /\ pc = "date_time"
    /\ pc' = "stamped"
    /\ result' = [timestamp |-> parse_timestamp_fast(data)]
    /\ UNCHANGED <<data, fmt, chunk_size, num_threads, mmapVars, file_pos, filled,
                   leftover, csv_header, regions, read_errors, tokens, scan_args>>

SpecTimestamp == InitTimestamp /\ [][ParseTimestamp]_vars

(***************************************************************************)
(* LogFormat::detect applied to one buffer written from parts: a prefix    *)
(* (nothing, a byte order mark, white space, both in either order), an     *)
(* opening ("{", "[{", "[ {", a lone "[", or nothing), up to               *)
(* MaxDetectTokens space-separated tokens, and possibly a second line      *)
(* after LF or CR LF.  tokens records the parts.                           *)
(***************************************************************************)
\* k=v   k="a b"   k=a,b,c   are key=value tokens;
\* a,b,c   1,2,3   word   =v   are not
DetectTokens ==
    {[text |-> <<107, EQUALS, 118>>, valid |-> TRUE],
     [text |-> <<107, EQUALS, QUOTE, 97, SP, 98, QUOTE>>, valid |-> TRUE],
     [text |-> <<107, EQUALS, 97, COMMA, 98, COMMA, 99>>, valid |-> TRUE],
     [text |-> <<97, COMMA, 98, COMMA, 99>>, valid |-> FALSE],
     [text |-> <<49, COMMA, 50, COMMA, 51>>, valid |-> FALSE],
     [text |-> <<119, 111, 114, 100>>, valid |-> FALSE],
     [text |-> <<EQUALS, 118>>, valid |-> FALSE]}

\* the bytes before the first line, the first line without its line end,
\* and the bytes after it, of the buffer written from the parts tk
DetectParts(tk) ==
    LET RECURSIVE join(_)
        join(ts) == IF ts = <<>> THEN <<>>
                    ELSE Head(ts).text
                         \o (IF Len(ts) > 1 THEN <<SP>> \o join(Tail(ts)) ELSE <<>>)
        opening == IF tk.opening = "brace" THEN <<LBRACE, SP>>
                   ELSE IF tk.opening = "bracket_brace" THEN <<LBRACKET, LBRACE, SP>>
                   ELSE IF tk.opening = "bracket_space_brace"
                   THEN <<LBRACKET, SP, TAB, LBRACE, SP>>
                   ELSE IF tk.opening = "bracket" THEN <<LBRACKET, SP>>
                   ELSE <<>>
        second == IF tk.second = "two_commas" THEN <<120, COMMA, 121, COMMA, 122>>
                  ELSE <<120, COMMA, 121>>
    IN  [prefix |-> IF tk.prefix = "bom" THEN BOM
                    ELSE IF tk.prefix = "ws" THEN <<SP, TAB, CR, NL>>
                    ELSE IF tk.prefix = "bom_ws" THEN BOM \o <<NL, SP>>
                    ELSE IF tk.prefix = "ws_bom" THEN <<SP>>
                    ELSE <<>>,
         first_line |-> (IF tk.prefix = "ws_bom" THEN BOM \o <<SP>> ELSE <<>>)
                            \o opening \o join(tk.first),
         rest |-> IF tk.second = "none" THEN <<>>
                  ELSE (IF tk.crlf THEN <<CR, NL>> ELSE <<NL>>) \o second]

InitDetect ==
    /\ \E n \in 0..MaxDetectTokens :
          \E first \in [1..n -> DetectTokens] :
              \E prefix \in {"none", "bom", "ws", "bom_ws", "ws_bom"} :
                  \E opening \in {"none", "brace", "bracket_brace",
                                  "bracket_space_brace", "bracket"} :
                      \E second \in (IF n = 0 /\ opening = "none" THEN {"none"}
                                     ELSE {"none", "two_commas", "one_comma"}) :
                          \E crlf \in (IF second = "none" THEN {FALSE} ELSE BOOLEAN) :
                              tokens = [prefix |-> prefix, opening |-> opening,
                                        first |-> first, second |-> second,
                                        crlf |-> crlf]
    /\ data = DetectParts(tokens).prefix \o DetectParts(tokens).first_line
                  \o DetectParts(tokens).rest
    /\ fmt = "Plain"
    /\ chunk_size = 1
    /\ num_threads = 1
    /\ pc = "undetected"
    /\ result = NoBatch
    /\ MmapIdle
    /\ file_pos = 0 /\ filled = 0 /\ leftover = <<>>
    /\ csv_header = NoHeader /\ regions = <<>> /\ read_errors = 0
    /\ scan_args = NoScan

Detect ==
    /\ pc = "undetected"
    /\ pc' = "detected"
    /\ result' = [format |-> detect(data)]
    /\ UNCHANGED <<data, fmt, chunk_size, num_threads, mmapVars, file_pos, filled,
                   leftover, csv_header, regions, read_errors, tokens, scan_args>>

SpecDetect == InitDetect /\ [][Detect]_vars

(***************************************************************************)
(* The logfmt parser applied to one line of up to MaxLogfmtTokens tokens,  *)
(* separated by single spaces: lone keys, bare values and quoted values    *)
(* with spaces, escaped quotes and escaped backslashes.                    *)
(***************************************************************************)
\* t   msg   t=v   t=""   t="a b"   t="a\"b"   msg="\\"
LogfmtTokenSet ==
    {[key |-> <<116>>, eq |-> FALSE, quoted |-> FALSE, value |-> <<>>],
     [key |-> <<109, 115, 103>>, eq |-> FALSE, quoted |-> FALSE, value |-> <<>>],
     [key |-> <<116>>, eq |-> TRUE, quoted |-> FALSE, value |-> <<118>>],
     [key |-> <<116>>, eq |-> TRUE, quoted |-> TRUE, value |-> <<>>],
     [key |-> <<116>>, eq |-> TRUE, quoted |-> TRUE, value |-> <<97, SP, 98>>],
     [key |-> <<116>>, eq |-> TRUE, quoted |-> TRUE,
      value |-> <<97, BACKSLASH, QUOTE, 98>>],
     [key |-> <<109, 115, 103>>, eq |-> TRUE, quoted |-> TRUE,
      value |-> <<BACKSLASH, BACKSLASH>>]}

\* the bytes of one token
LogfmtTokenText(tok) ==
    tok.key \o (IF ~tok.eq THEN <<>>
                ELSE IF tok.quoted THEN <<EQUALS, QUOTE>> \o tok.value \o <<QUOTE>>
                ELSE <<EQUALS>> \o tok.value)

RECURSIVE LogfmtLineText(_)
LogfmtLineText(toks) ==
    IF toks = <<>> THEN <<>>
    ELSE LogfmtTokenText(Head(toks))
         \o (IF Len(toks) > 1 THEN <<SP>> \o LogfmtLineText(Tail(toks)) ELSE <<>>)

InitLogfmt ==
    /\ \E n \in 0..MaxLogfmtTokens : tokens \in [1..n -> LogfmtTokenSet]
    /\ data = LogfmtLineText(tokens)
    /\ fmt = "Logfmt"
    /\ csv_header = NoHeader
    /\ chunk_size = 1
    /\ num_threads = 1
    /\ pc = "input"
    /\ result = NoBatch
    /\ MmapIdle
    /\ file_pos = 0 /\ filled = 0 /\ leftover = <<>>
    /\ regions = <<>> /\ read_errors = 0
    /\ scan_args = NoScan

SpecLogfmt == InitLogfmt /\ [][NextParse]_vars

(***************************************************************************)
(* The chunk size of the mmap orchestrators, read from the environment:    *)
(* std::env::var("PANDORA_CHUNK_MB").ok().and_then(|v| v.parse::<usize>()  *)
(* .ok()).filter(|v| *v >= 1).unwrap_or(64), times 1024 * 1024.            *)
(* tokens holds the variable: unset, or set to a text of up to MaxEnvLen   *)
(* bytes out of 0 1 6 + - x and space.                                     *)
(***************************************************************************)
DEFAULT_CHUNK_MB == 64
MIB == 1048576

\* str::parse::<usize>: an optional '+', then one or more decimal digits;
\* NOT_FOUND stands for Err
parse_usize(text) ==
    LET digits == IF text # <<>> /\ text[1] = 43 THEN Tail(text) ELSE text
        RECURSIVE value(_, _)
        value(ds, acc) == IF ds = <<>> THEN acc
                          ELSE value(Tail(ds), acc * 10 + (Head(ds) - 48))
    IN  IF digits = <<>> \/ \E k \in 1..Len(digits) : digits[k] \notin 48..57
        THEN NOT_FOUND
        ELSE value(digits, 0)

\* chunk_mb of parse_logs_pipelined / parse_format_mmap
chunk_mb(env) ==
    LET parsed == IF env.set THEN parse_usize(env.text) ELSE NOT_FOUND
    IN  IF parsed # NOT_FOUND /\ parsed >= 1 THEN parsed ELSE DEFAULT_CHUNK_MB

EnvTexts == UNION {[1..n -> {48, 49, 54, 43, 45, 120, SP}] : n \in 0..MaxEnvLen}

InitEnv ==
    /\ tokens \in {[set |-> FALSE, text |-> <<>>]}
                     \cup {[set |-> TRUE, text |-> t] : t \in EnvTexts}
    /\ data = <<>>
    /\ fmt = "Plain"
    /\ chunk_size = 1
    /\ num_threads = 1
    /\ pc = "env"
    /\ result = NoBatch
    /\ MmapIdle
    /\ file_pos = 0 /\ filled = 0 /\ leftover = <<>>
    /\ csv_header = NoHeader /\ regions = <<>> /\ read_errors = 0
    /\ scan_args = NoScan

\* let chunk_size = chunk_mb * 1024 * 1024
ReadChunkSize ==
    /\ pc = "env"
    /\ pc' = "configured"
    /\ result' = [chunk_size |-> chunk_mb(tokens) * MIB]
    /\ UNCHANGED <<data, fmt, chunk_size, num_threads, mmapVars, file_pos, filled,
                   leftover, csv_header, regions, read_errors, tokens, scan_args>>

SpecEnv == InitEnv /\ [][ReadChunkSize]_vars

(***************************************************************************)
(* The main loops of parse_json_line, parse_logfmt_line and parse_csv_line, *)
(* one iteration per step.  result holds the locals of the running call:    *)
(* the byte cursor i, the cursor prev_i at the head of the last iteration,  *)
(* the column index of the CSV loop, the iterations run and the fields      *)
(* pushed.                                                                  *)
(***************************************************************************)
MaxLoopLine == 4    \* longest line given to a line parser

LoopAlphabet(f) ==
    IF f = "Json" THEN {LBRACE, RBRACE, QUOTE, COLON, COMMA, BACKSLASH, SP, LOWER_T}
    ELSE IF f = "Csv" THEN {COMMA, QUOTE, CR, NL, SP, LOWER_T}
    ELSE {SP, EQUALS, QUOTE, BACKSLASH, LOWER_T}

LoopLines(f) == UNION {[1..n -> LoopAlphabet(f)] : n \in 0..MaxLoopLine}

\* one iteration of the loop of parse_json_line from cursor i0
json_iteration(line, i0) ==
    LET len == Len(line)
        i == SkipJsonWhitespace(line, i0)
    IN  IF i >= len \/ Byte(line, i) = RBRACE
        THEN [exit |-> TRUE, panicked |-> FALSE, pushed |-> 0, i |-> i]
        ELSE IF Byte(line, i) = COMMA
        THEN [exit |-> FALSE, panicked |-> FALSE, pushed |-> 0, i |-> i + 1]
        ELSE IF Byte(line, i) # QUOTE
        THEN [exit |-> FALSE, panicked |-> FALSE, pushed |-> 0,
              i |-> SkipToCommaOrBrace(line, i)]
        ELSE
            LET key_end == ScanQuoted(line, i + 1)
                i1 == IF key_end < len THEN key_end + 1 ELSE key_end
                i2 == SkipJsonWhitespace(line, i1)
                i3 == IF i2 < len /\ Byte(line, i2) = COLON THEN i2 + 1 ELSE i2
                i4 == SkipJsonWhitespace(line, i3)
                v == parse_json_value(line, i4)
                i5 == SkipJsonWhitespace(line, v.i)
                i6 == IF i5 < len /\ Byte(line, i5) = COMMA THEN i5 + 1 ELSE i5
            IN  IF key_end > len     \* &line[key_start..key_end]
                THEN [exit |-> TRUE, panicked |-> TRUE, pushed |-> 1, i |-> v.i]
                ELSE [exit |-> FALSE, panicked |-> FALSE, pushed |-> 1, i |-> i6]

\* a faulty token loop: the lone-key path continues from the start of the key
logfmt_iteration_rescanning(line, i0) ==
    LET len == Len(line)
        key_start == SkipSpaces(line, i0)
        key_end == ScanLogfmtKey(line, key_start)
    IN  IF key_start >= len
        THEN [exit |-> TRUE, panicked |-> FALSE, pushed |-> 0, i |-> key_start]
        ELSE IF key_end >= len \/ Byte(line, key_end) # EQUALS
        THEN [exit |-> FALSE, panicked |-> FALSE,
              pushed |-> IF key_end > key_start THEN 1 ELSE 0, i |-> key_start]
        ELSE
            LET i1 == key_end + 1
                quoted == i1 < len /\ Byte(line, i1) = QUOTE
                val_end == IF quoted THEN ScanQuoted(line, i1 + 1)
                           ELSE ScanToSpace(line, i1)
                i2 == IF quoted /\ val_end < len THEN val_end + 1 ELSE val_end
            IN  [exit |-> FALSE, panicked |-> FALSE, pushed |-> 1, i |-> i2]

\* one iteration of the loop of parse_logfmt_line from cursor i0
logfmt_iteration(line, i0) ==
    LET len == Len(line)
        key_start == SkipSpaces(line, i0)
        key_end == ScanLogfmtKey(line, key_start)
    IN  IF key_start >= len
        THEN [exit |-> TRUE, panicked |-> FALSE, pushed |-> 0, i |-> key_start]
        ELSE IF key_end >= len \/ Byte(line, key_end) # EQUALS
        THEN [exit |-> FALSE, panicked |-> FALSE,
              pushed |-> IF key_end > key_start THEN 1 ELSE 0, i |-> key_end]
        ELSE
            LET i1 == key_end + 1
                quoted == i1 < len /\ Byte(line, i1) = QUOTE
                val_end == IF quoted THEN ScanQuoted(line, i1 + 1)
                           ELSE ScanToSpace(line, i1)
                i2 == IF quoted /\ val_end < len THEN val_end + 1 ELSE val_end
            IN  [exit |-> FALSE, panicked |-> FALSE, pushed |-> 1, i |-> i2]

\* one iteration of the loop of parse_csv_line from cursor i0 and column col_idx
csv_iteration(line, header, i0, col_idx) ==
    IF i0 < Len(line) /\ col_idx < num_columns(header)
    THEN LET v == parse_csv_field(line, i0)
             i1 == IF v.i < Len(line) /\ Byte(line, v.i) = COMMA THEN v.i + 1 ELSE v.i
         IN  [exit |-> FALSE, panicked |-> FALSE, pushed |-> 1, i |-> i1]
    ELSE [exit |-> TRUE, panicked |-> FALSE, pushed |-> 0, i |-> i0]

LoopLocals(i) == [i |-> i, prev_i |-> i, col_idx |-> 0, iterations |-> 0, fields |-> 0]

InitLineLoop ==
    /\ fmt \in {"Json", "Logfmt", "Csv"}
    /\ data \in LoopLines(fmt)
    /\ csv_header \in (IF fmt = "Csv" THEN CsvHeaders ELSE {NoHeader})
    /\ chunk_size = 1
    /\ num_threads = 1
    /\ pc = "line_entry"
    /\ result = LoopLocals(0)
    /\ MmapIdle
    /\ file_pos = 0 /\ filled = 0 /\ leftover = <<>>
    /\ regions = <<>> /\ read_errors = 0
    /\ tokens = NoTokens
    /\ scan_args = NoScan

\* the code before the loop: the early returns, and the search of the opening
\* brace in parse_json_line
EnterLine ==
    /\ pc = "line_entry"
    /\ LET brace == memchr(LBRACE, data)
       IN  IF fmt = "Json"
           THEN IF Len(data) < 2 \/ brace = NOT_FOUND
                THEN pc' = "line_done" /\ result' = result
                ELSE pc' = "line_loop" /\ result' = LoopLocals(brace + 1)
           ELSE IF Len(data) = 0
                THEN pc' = "line_done" /\ result' = result
                ELSE pc' = "line_loop" /\ result' = result
    /\ UNCHANGED <<data, fmt, chunk_size, num_threads, mmapVars, file_pos, filled,
                   leftover, csv_header, regions, read_errors, tokens, scan_args>>

\* the locals and the position after an iteration with outcome it
AfterIteration(it) ==
    /\ pc' = IF it.panicked THEN "line_panicked"
             ELSE IF it.exit THEN "line_done" ELSE "line_loop"
    /\ result' = [i |-> it.i,
                  prev_i |-> result.i,
                  col_idx |-> IF fmt = "Csv" /\ ~it.exit
                              THEN result.col_idx + 1 ELSE result.col_idx,
                  iterations |-> result.iterations + 1,
                  fields |-> result.fields + it.pushed]
    /\ UNCHANGED <<data, fmt, chunk_size, num_threads, mmapVars, file_pos, filled,
                   leftover, csv_header, regions, read_errors, tokens, scan_args>>

JsonIteration ==
    /\ pc = "line_loop" /\ fmt = "Json"
    /\ AfterIteration(json_iteration(data, result.i))

LogfmtIteration ==
    /\ pc = "line_loop" /\ fmt = "Logfmt"
    /\ AfterIteration(logfmt_iteration(data, result.i))

CsvIteration ==
    /\ pc = "line_loop" /\ fmt = "Csv"
    /\ AfterIteration(csv_iteration(data, csv_header, result.i, result.col_idx))

NextLineLoop == EnterLine \/ JsonIteration \/ LogfmtIteration \/ CsvIteration

SpecLineLoop == InitLineLoop /\ [][NextLineLoop]_vars

(***************************************************************************)
(* simd_scan.rs: scan_newlines_parallel.  The parallel path needs a buffer  *)
(* of PARALLEL_MIN_LEN bytes, so the buffer is kept as its length and the   *)
(* set of the positions of its newlines (scan_args), every other byte being *)
(* a letter.  assignments holds the chunks, local the vector of each scan   *)
(* thread, ordered_batches the results vector, result the returned vector.  *)
(***************************************************************************)
PARALLEL_MIN_LEN == 1000000
MaxScanThreads == 3     \* largest num_threads of the parallel scan

\* the elements of a set of integers in increasing order
SortedSeq(S) ==
    [k \in 1..Cardinality(S) |-> CHOOSE x \in S : Cardinality({y \in S : y < x}) = k - 1]

div_ceil(a, b) == (a + b - 1) \div b

\* scan_region on the slice [start, end) of the buffer with newlines at nls
scan_region_sparse(nls, start, end, global_base, data_total_len) ==
    SortedSeq({next_line \in {global_base + (p - start) + 1 :
                                 p \in {q \in nls : q >= start /\ q < end}} :
                  next_line < data_total_len})

scan_newlines(len, nls) ==
    IF len = 0 THEN <<0>>
    ELSE <<0>> \o scan_region_sparse(nls, 0, len, 0, len)

\* the chunks of scan_newlines_parallel: (start, end, is_first)
ParChunks(len, n) ==
    LET par_chunk_size == div_ceil(len, n)
    IN  SelectSeq([i \in 1..n |->
                      [start |-> (i - 1) * par_chunk_size,
                       end |-> Min2(i * par_chunk_size, len),
                       is_first |-> i = 1]],
                  LAMBDA c : c.start < c.end)

\* a faulty scan thread: offsets relative to its own slice
scan_chunk_relative(nls, c, data_len) ==
    (IF c.is_first THEN <<0>> ELSE <<>>)
        \o scan_region_sparse(nls, c.start, c.end, 0, data_len)

\* the closure run by a scan thread on chunk c
scan_chunk(nls, c, data_len) ==
    (IF c.is_first THEN <<0>> ELSE <<>>)
        \o scan_region_sparse(nls, c.start, c.end, c.start, data_len)

\* results.sort_unstable_by_key(|(idx, _)| *idx); the indices are distinct
SortByIdx(results) ==
    [k \in 1..Len(results) |->
        CHOOSE r \in {results[j] : j \in 1..Len(results)} :
            Cardinality({j \in 1..Len(results) : results[j].idx < r.idx}) = k - 1]

ParLens ==
    {0, 1, PARALLEL_MIN_LEN - 1, PARALLEL_MIN_LEN, PARALLEL_MIN_LEN + 1,
     PARALLEL_MIN_LEN + 2}

\* the positions where a chunk begins or ends, and the ends of the buffer
ParMarks(len, n) ==
    LET par_chunk_size == div_ceil(len, Max2(n, 1))
    IN  ({0, len - 1} \cup {k * par_chunk_size - 1 : k \in 1..n}
                      \cup {k * par_chunk_size : k \in 1..n}) \cap (0..(len - 1))

InitParScan ==
    /\ num_threads \in 0..MaxScanThreads
    /\ \E len \in ParLens :
          \E nls \in {m \in SUBSET ParMarks(len, num_threads) :
                         Cardinality(m) <= 2 \/ m = ParMarks(len, num_threads)} :
              scan_args = [len |-> len, newlines |-> nls]
    /\ data = <<>>
    /\ fmt = "Plain"
    /\ chunk_size = 1
    /\ pc = "par_entry"
    /\ result = NoBatch
    /\ MmapIdle
    /\ file_pos = 0 /\ filled = 0 /\ leftover = <<>>
    /\ csv_header = NoHeader /\ regions = <<>> /\ read_errors = 0
    /\ tokens = NoTokens

\* the early returns, or the spawn of one scan thread per chunk
ParEnter ==
    /\ pc = "par_entry"
    /\ IF scan_args.len = 0 \/ num_threads <= 1 \/ scan_args.len < PARALLEL_MIN_LEN
       THEN /\ result' = scan_newlines(scan_args.len, scan_args.newlines)
            /\ pc' = "par_returned"
            /\ UNCHANGED <<assignments, local, wstate>>
       ELSE LET chunks == ParChunks(scan_args.len, num_threads)
            IN  /\ assignments' = chunks
                /\ local' = [w \in 1..Len(chunks) |-> <<>>]
                /\ wstate' = [w \in 1..Len(chunks) |-> "spawned"]
                /\ pc' = "par_scanning"
                /\ result' = result
    /\ UNCHANGED <<data, fmt, chunk_size, num_threads, boundaries, finish_order, joined,
                   ordered_batches, file_pos, filled, leftover, csv_header, regions,
                   read_errors, tokens, scan_args>>

\* scan thread w runs to its end
ParScanThread(w) ==
    /\ pc = "par_scanning"
    /\ wstate[w] = "spawned"
    /\ local' = [local EXCEPT ![w] = scan_chunk(scan_args.newlines, assignments[w],
                                                 scan_args.len)]
    /\ wstate' = [wstate EXCEPT ![w] = "done"]
    /\ finish_order' = Append(finish_order, w)
    /\ UNCHANGED <<data, fmt, chunk_size, num_threads, pc, boundaries, assignments,
                   joined, ordered_batches, result, file_pos, filled, leftover,
                   csv_header, regions, read_errors, tokens, scan_args>>

\* for handle in handles: join the next handle, push its (idx, local)
ParJoin ==
    /\ pc = "par_scanning"
    /\ joined < Len(assignments)
    /\ wstate[joined + 1] = "done"
    /\ ordered_batches' = Append(ordered_batches,
                                 [idx |-> joined, local |-> local[joined + 1]])
    /\ joined' = joined + 1
    /\ UNCHANGED <<data, fmt, chunk_size, num_threads, pc, boundaries, assignments,
                   local, wstate, finish_order, result, file_pos, filled, leftover,
                   csv_header, regions, read_errors, tokens, scan_args>>

\* sort the results by index and concatenate them
ParMerge ==
    /\ pc = "par_scanning"
    /\ joined = Len(assignments)
    /\ LET results == SortByIdx(ordered_batches)
       IN  result' = Flatten([k \in 1..Len(results) |-> results[k].local])
    /\ pc' = "par_returned"
    /\ UNCHANGED <<data, fmt, chunk_size, num_threads, mmapVars, file_pos, filled,
                   leftover, csv_header, regions, read_errors, tokens, scan_args>>

NextParScan ==
    \/ ParEnter
    \/ \E w \in 1..MaxScanThreads : w <= Len(assignments) /\ ParScanThread(w)
    \/ ParJoin
    \/ ParMerge

SpecParScan == InitParScan /\ [][NextParScan]_vars

(***************************************************************************)
(* orchestrator.rs: choose_pinned_cores.  tokens holds the topology: one    *)
(* entry per logical core of core_ids, in the order of core_ids, with the   *)
(* package id and the core id read for it (NOT_FOUND for None); num_threads *)
(* holds worker_threads.                                                    *)
(***************************************************************************)
MaxCores == 3       \* most logical cores of a topology

TopoIds == {NOT_FOUND, 0, 1}

\* the logical cores 0..n-1, each with a package id and a core id
Topologies ==
    UNION {{[k \in 1..n |-> [core |-> k - 1, package_id |-> pk[k], core_id |-> ck[k]]] :
               pk \in [1..n -> TopoIds], ck \in [1..n -> TopoIds]} : n \in 0..MaxCores}

\* by_package: the entries of each package id, in the order of core_ids
by_package(topo) ==
    [p \in {topo[k].package_id : k \in 1..Len(topo)} |->
        SelectSeq(topo, LAMBDA e : e.package_id = p)]

\* the orders in which into_values() can yield the values of a map
HashOrders(map) ==
    {o \in [1..Cardinality(DOMAIN map) -> DOMAIN map] :
        \A i, j \in 1..Cardinality(DOMAIN map) : o[i] = o[j] => i = j}

\* packages.sort_by_key(|entries| Reverse(entries.len())): a stable sort
sort_by_len_reversed(packages) ==
    LET n == Len(packages)
        before(i, j) == \/ Len(packages[i]) > Len(packages[j])
                        \/ (Len(packages[i]) = Len(packages[j]) /\ i < j)
    IN  [k \in 1..n |->
            packages[CHOOSE j \in 1..n :
                         Cardinality({i \in 1..n : before(i, j)}) = k - 1]]

core_key(entry) == <<entry.package_id, entry.core_id>>

\* a faulty first loop: it takes every core it meets
RECURSIVE FirstLoopTakingSiblings(_, _, _, _, _)
FirstLoopTakingSiblings(visit, k, worker_threads, selected, used_core_ids) ==
    IF k > Len(visit) THEN [selected |-> selected, returned |-> FALSE]
    ELSE LET pushed == Append(selected, visit[k].core)
         IN  IF Len(pushed) >= worker_threads
             THEN [selected |-> pushed, returned |-> TRUE]
             ELSE FirstLoopTakingSiblings(visit, k + 1, worker_threads, pushed,
                                          used_core_ids)

\* the first loop over the packages and their entries, visit being the
\* entries in the order the nested loops reach them
RECURSIVE FirstLoop(_, _, _, _, _)
FirstLoop(visit, k, worker_threads, selected, used_core_ids) ==
    IF k > Len(visit) THEN [selected |-> selected, returned |-> FALSE]
    ELSE IF core_key(visit[k]) \in used_core_ids
    THEN FirstLoop(visit, k + 1, worker_threads, selected, used_core_ids)
    ELSE LET pushed == Append(selected, visit[k].core)
         IN  IF Len(pushed) >= worker_threads
             THEN [selected |-> pushed, returned |-> TRUE]
             ELSE FirstLoop(visit, k + 1, worker_threads, pushed,
                            used_core_ids \cup {core_key(visit[k])})

\* the second loop: the cores not selected yet
RECURSIVE SecondLoop(_, _, _, _)
SecondLoop(visit, k, worker_threads, selected) ==
    IF k > Len(visit) THEN selected
    ELSE IF \E c \in 1..Len(selected) : selected[c] = visit[k].core
    THEN SecondLoop(visit, k + 1, worker_threads, selected)
    ELSE LET pushed == Append(selected, visit[k].core)
         IN  IF Len(pushed) >= worker_threads THEN pushed
             ELSE SecondLoop(visit, k + 1, worker_threads, pushed)

\* choose_pinned_cores when into_values() yields the packages in hash_order
choose_pinned_cores(worker_threads, topo, hash_order) ==
    IF worker_threads = 0 \/ topo = <<>> THEN [selected |-> <<>>, packages |-> <<>>]
    ELSE LET map == by_package(topo)
             packages == sort_by_len_reversed([k \in 1..Len(hash_order) |->
                                                  map[hash_order[k]]])
             visit == Flatten(packages)
             first == FirstLoop(visit, 1, worker_threads, <<>>, {})
         IN  [selected |-> IF first.returned THEN first.selected
                           ELSE SecondLoop(visit, 1, worker_threads, first.selected),
              packages |-> packages]

InitPin ==
    /\ tokens \in Topologies
    /\ num_threads \in 0..(MaxCores + 1)
    /\ data = <<>>
    /\ fmt = "Plain"
    /\ chunk_size = 1
    /\ pc = "pin_input"
    /\ result = NoBatch
    /\ MmapIdle
    /\ file_pos = 0 /\ filled = 0 /\ leftover = <<>>
    /\ csv_header = NoHeader /\ regions = <<>> /\ read_errors = 0
    /\ scan_args = NoScan

\* choose_pinned_cores(worker_threads, &core_ids)
ChoosePinnedCores ==
    /\ pc = "pin_input"
    /\ \E hash_order \in HashOrders(by_package(tokens)) :
          result' = choose_pinned_cores(num_threads, tokens, hash_order)
    /\ pc' = "pinned"
    /\ UNCHANGED <<data, fmt, chunk_size, num_threads, mmapVars, file_pos, filled,
                   leftover, csv_header, regions, read_errors, tokens, scan_args>>

SpecPin == InitPin /\ [][ChoosePinnedCores]_vars

(***************************************************************************)
(* json_parser.rs: the string-end search.  A 64-bit mask is the set of its  *)
(* set bits.  scan_args holds the start position.                           *)
(***************************************************************************)
MaxStringTail == 2      \* most bytes after the first 64-byte block

\* the bits b of a width-bit compare mask: bytes[offset + b] = needle
byte_mask(bytes, offset, width, needle) ==
    {b \in 0..(width - 1) : Byte(bytes, offset + b) = needle}

\* find_quote_mask_avx2 with len >= 64: (quote_mask, bs_mask)
find_quote_mask_avx2(bytes, offset) ==
    LET both(needle) ==
            byte_mask(bytes, offset, YMM_WIDTH, needle)
                \cup {b + YMM_WIDTH :
                         b \in byte_mask(bytes, offset + YMM_WIDTH, YMM_WIDTH, needle)}
    IN  <<both(QUOTE), both(BACKSLASH)>>

\* find_quote_mask_avx512 with len >= 64
find_quote_mask_avx512(bytes, offset) ==
    <<byte_mask(bytes, offset, LANE_WIDTH, QUOTE),
      byte_mask(bytes, offset, LANE_WIDTH, BACKSLASH)>>

\* the backslash bits met going down from check_pos until a clear bit or bit 0
RECURSIVE BsCount(_, _)
BsCount(bs_mask, check_pos) ==
    IF check_pos \in bs_mask
    THEN 1 + (IF check_pos = 0 THEN 0 ELSE BsCount(bs_mask, check_pos - 1))
    ELSE 0

resolve_escapes(quote_mask, bs_mask) ==
    IF bs_mask = {} THEN quote_mask
    ELSE {pos \in quote_mask : ~(pos > 0 /\ BsCount(bs_mask, pos - 1) % 2 = 1)}

RECURSIVE find_string_end_scalar(_, _)
find_string_end_scalar(bytes, pos) ==
    IF pos < Len(bytes)
    THEN IF Byte(bytes, pos) = QUOTE THEN pos
         ELSE IF Byte(bytes, pos) = BACKSLASH THEN find_string_end_scalar(bytes, pos + 2)
         ELSE find_string_end_scalar(bytes, pos + 1)
    ELSE Len(bytes)

\* find_string_end_avx2 / find_string_end_avx512 from pos
RECURSIVE find_string_end_blocks(_, _, _)
find_string_end_blocks(kernel, bytes, pos) ==
    IF pos + LANE_WIDTH <= Len(bytes)
    THEN LET masks == IF kernel = "avx2" THEN find_quote_mask_avx2(bytes, pos)
                      ELSE find_quote_mask_avx512(bytes, pos)
             real_quotes == resolve_escapes(masks[1], masks[2])
         IN  IF real_quotes # {} THEN pos + SetMin(real_quotes)
             ELSE find_string_end_blocks(kernel, bytes, pos + LANE_WIDTH)
    ELSE find_string_end_scalar(bytes, pos)

\* the bytes that vary: the first two of the search, the last two of its
\* first block and the bytes after the block
StringMarks(len, start) ==
    {p \in {start, start + 1} \cup ((start + LANE_WIDTH - 2)..(len - 1)) : p < len}

InitStringEnd ==
    /\ \E start \in {0, 1} :
         \E len \in (start + LANE_WIDTH - 1)..(start + LANE_WIDTH + MaxStringTail) :
           \E marks \in [StringMarks(len, start) -> {LOWER_T, QUOTE, BACKSLASH}] :
              /\ data = [k \in 1..len |-> IF (k - 1) \in DOMAIN marks
                                          THEN marks[k - 1] ELSE LOWER_T]
              /\ scan_args = [start |-> start]
    /\ fmt = "Json"
    /\ chunk_size = 1
    /\ num_threads = 1
    /\ pc = "string_input"
    /\ result = NoBatch
    /\ MmapIdle
    /\ file_pos = 0 /\ filled = 0 /\ leftover = <<>>
    /\ csv_header = NoHeader /\ regions = <<>> /\ read_errors = 0
    /\ tokens = NoTokens

\* the three searches on the same arguments
FindStringEnd ==
    /\ pc = "string_input"
    /\ pc' = "string_found"
    /\ result' = [scalar |-> find_string_end_scalar(data, scan_args.start),
                  avx2 |-> find_string_end_blocks("avx2", data, scan_args.start),
                  avx512 |-> find_string_end_blocks("avx512", data, scan_args.start)]
    /\ UNCHANGED <<data, fmt, chunk_size, num_threads, mmapVars, file_pos, filled,
                   leftover, csv_header, regions, read_errors, tokens, scan_args>>

SpecStringEnd == InitStringEnd /\ [][FindStringEnd]_vars

(***************************************************************************)
(* Properties of the mmap mode.                                            *)
(***************************************************************************)
StrictlyIncreasing(s) == \A i \in 1..(Len(s) - 1) : s[i] < s[i + 1]

\* the lines of a buffer that hold at least one byte besides the newline
NonEmptyLineCount(d) ==
    Cardinality({i \in 1..Len(d) : d[i] # NL /\ (i = 1 \/ d[i - 1] = NL)})

AllLineOffsets(batches) == Flatten([k \in 1..Len(batches) |-> batches[k].line_offsets])

\* C1: for a fixed buffer, chunk size and format, parse_structured_mmap and
\* parse_logs_pipelined return the same batches, totals and format for every
\* requested worker count: the result of a call is the one the single-worker
\* loop over the chunks produces, and a call panics exactly when that loop does.
C1_WorkerCountIndependence ==
    LET bnds == ChunkBoundaries(MmapBody(data, fmt), chunk_size)
        reference == SequentialBatches(data, fmt, bnds)
    IN  /\ (pc = "done" /\ ~MmapIsEmpty(data, fmt)) =>
               /\ ~AnyPanicked(reference)
               /\ result = MmapResult(fmt, reference)
        /\ (pc = "panicked") => AnyPanicked(reference)

\* a call that ran three workers over three non-empty chunks and returned records
C1_Witness ==
    /\ pc = "done"
    /\ Len(wstate) = 3
    /\ \A k \in 1..3 : boundaries[k] < boundaries[k + 1]
    /\ \A k \in 1..3 : result.batches[k].len > 0

\* C2: the batch list of an mmap call is in chunk-index order whatever the
\* order in which the workers finish: batch k is the parse of chunk k, so the
\* line offsets of the records never decrease along the list (they strictly
\* increase for the structured parsers, which store one offset per record).
C2_BatchesInChunkOrder ==
    (pc = "done" /\ ~MmapIsEmpty(data, fmt)) =>
        /\ Len(result.batches) = Len(boundaries) - 1
        /\ \A k \in 1..Len(result.batches) :
               result.batches[k] = ParseChunkOf(data, fmt, boundaries, k - 1)
        /\ fmt # "Plain" => StrictlyIncreasing(AllLineOffsets(result.batches))

\* a call whose later worker finished before its first worker and that
\* returned records from two different chunks
C2_Witness ==
    /\ pc = "done"
    /\ fmt # "Plain"
    /\ Len(finish_order) >= 2
    /\ finish_order[1] > finish_order[2]
    /\ Len(result.batches) >= 2
    /\ result.batches[1].len > 0
    /\ result.batches[2].len > 0

\* C4: parse_logs_pipelined returns a total_lines, and a sum of batch lengths,
\* equal to the number of non-empty lines of the file.
C4_TotalIsNonEmptyLines ==
    (pc = "done" /\ fmt = "Plain") =>
        /\ result.total_lines = NonEmptyLineCount(data)
        /\ TotalLen(result.batches) = NonEmptyLineCount(data)

(***************************************************************************)
(* Properties of the streaming mode.                                       *)
(***************************************************************************)
\* the result of the mmap entry point on buffer d with chunk size csize
MmapCall(d, f, csize) ==
    IF MmapIsEmpty(d, f)
    THEN EmptyResult(f, IF Len(d) = 0 THEN "PlainText" ELSE f)
    ELSE MmapResult(f, SequentialBatches(d, f, ChunkBoundaries(MmapBody(d, f), csize)))

MmapPanics(d, f, csize) ==
    /\ ~MmapIsEmpty(d, f)
    /\ AnyPanicked(SequentialBatches(d, f, ChunkBoundaries(MmapBody(d, f), csize)))

\* C3: for the same file bytes and format hint, parse_structured_streamed and
\* parse_structured_mmap return the same total_records and total_fields, for
\* every segment size, chunk size and file length.
C3_StreamedTotalsEqualMmap ==
    (pc = "returned" /\ fmt # "Plain" /\ read_errors = 0) =>
        \A c \in 1..MaxChunk :
            /\ ~MmapPanics(data, fmt, c)
            /\ result.total_records = MmapCall(data, fmt, c).total_records
            /\ result.total_fields = MmapCall(data, fmt, c).total_fields

\* C5: for the same file bytes, parse_logs_streamed and parse_logs_pipelined
\* return the same total_lines, for every chunk size and segment size.
C5_StreamedLinesEqualPipelined ==
    (pc = "returned" /\ fmt = "Plain" /\ read_errors = 0) =>
        \A c \in 1..MaxChunk :
            result.total_lines = MmapCall(data, "Plain", c).total_lines

\* C9: when parse_logs_streamed returns, batches and _backing_data hold one
\* entry per parsed region, and the batch lengths sum to total_lines.
C9_EveryBatchRetained ==
    (pc = "returned" /\ fmt = "Plain" /\ read_errors = 0) =>
        /\ Len(result.batches) = Len(regions)
        /\ Len(result._backing_data) = Len(regions)
        /\ result._backing_data = regions
        /\ TotalLen(result.batches) = result.total_lines

\* C10: in streaming mode with JSON, logfmt or plain input the regions handed
\* to the parser, concatenated in order, are exactly the bytes of the file: at
\* every moment the regions, the leftover and the bytes just read make up the
\* bytes consumed from the file, every region that is not the end of the file
\* ends with a newline,
\* and at the return the regions make up the whole file, so that a final line
\* without a newline is the end of the last region (while no read has failed).
C10_RegionsAreTheFile ==
    (fmt # "Csv" /\ pc \in {"reading", "returned"} /\ read_errors = 0) =>
        /\ Flatten(regions) \o leftover \o ReadBuf = Slice(data, 0, file_pos)
        /\ \A k \in 1..Len(regions) :
               /\ regions[k] # <<>>
               /\ (k < Len(regions) \/ Len(Flatten(regions)) < Len(data)) =>
                      regions[k][Len(regions[k])] = NL
        /\ (pc = "returned") => Flatten(regions) = data

\* a file whose length is twice the segment size and whose last line has no
\* newline, read to the end in at least two regions
C10_Witness ==
    /\ pc = "returned"
    /\ fmt # "Csv"
    /\ read_errors = 0
    /\ Len(data) = 2 * chunk_size
    /\ data[Len(data)] # NL
    /\ Len(regions) >= 2
    /\ regions[Len(regions)][Len(regions[Len(regions)])] # NL

(***************************************************************************)
(* Properties of the parsers.                                              *)
(***************************************************************************)
\* the lines of a buffer that hold a byte that is not JSON whitespace
NonBlankLineCount(d) ==
    LET starts == {i \in 1..Len(d) : i = 1 \/ d[i - 1] = NL}
        line_end(i) == SetMin({j \in i..(Len(d) + 1) : j = Len(d) + 1 \/ d[j] = NL})
    IN  Cardinality({i \in starts :
            \E j \in i..(line_end(i) - 1) : ~is_json_whitespace(d[j])})

\* C6: in JSON format every line that is not all whitespace produces exactly
\* one record, also a line without '{' and a line of a single byte.
C6_OneRecordPerLine ==
    (pc = "parsed" /\ fmt = "Json") => result.len = NonBlankLineCount(data)

\* C7: every field ref produced by the JSON and logfmt parsers lies inside
\* the buffer, for well-formed and malformed input.
C7_FieldRefsInBuffer ==
    (pc = "parsed") =>
        \A k \in 1..Len(result.fields) :
            /\ result.fields[k].key_offset + result.fields[k].key_len <= Len(data)
            /\ result.fields[k].val_offset + result.fields[k].val_len <= Len(data)

\* C8: parse_json_line completes without a panic on every byte sequence.
C8_JsonLineNeverPanics ==
    (fmt = "Json") => pc # "parse_panicked"

\* C11: if a read of the input file fails during parse_logs_streamed or
\* parse_structured_streamed, the call does not return a normal result.
C11_ReadFailureIsFatal ==
    (read_errors > 0) => pc # "returned"

\* C12: in mmap mode, if a worker thread panics the orchestrator call returns
\* no result (no partial batch list reaches the caller), and every other
\* worker has ended before the panic leaves the call.
C12_WorkerPanicIsFatal ==
    /\ (\E w \in 1..Len(wstate) : wstate[w] = "panicked") =>
           (pc # "done" /\ result = NoBatch)
    /\ (pc = "panicked") =>
           (result = NoBatch /\ \A w \in 1..Len(wstate) : wstate[w] # "running")

\* a call that had already joined a worker and stored its batch when the panic
\* of a later worker left the call
C12_Witness ==
    /\ pc = "panicked"
    /\ Len(wstate) >= 2
    /\ joined >= 1
    /\ ordered_batches[1] # NoBatch

\* C13: when the caller passes a format hint, the format reported in the
\* result of parse_structured_mmap equals the hint, for each of the four
\* formats (stated here for the calls that have an input to parse).
C13_ResultFormatIsHint ==
    (pc = "done" /\ fmt # "Plain" /\ Len(data) > 0) => result.format = fmt

\* C14: after parse_json_lines_range, parse_logfmt_lines_range or
\* parse_csv_lines_range has run on any input, the batch has field_starts[0]
\* = 0, field_starts non-decreasing with record_count + 1 entries and last
\* entry fields.len(), and well_known, line_offsets and line_lens have
\* record_count entries each.
C14_BatchShape ==
    (pc = "parsed") =>
        /\ result.field_starts[1] = 0
        /\ \A k \in 1..(Len(result.field_starts) - 1) :
               result.field_starts[k] <= result.field_starts[k + 1]
        /\ Len(result.field_starts) = result.len + 1
        /\ result.field_starts[Len(result.field_starts)] = Len(result.fields)
        /\ Len(result.well_known) = result.len
        /\ Len(result.line_offsets) = result.len
        /\ Len(result.line_lens) = result.len

\* a batch of two records, the first with a field and the second without
C14_Witness ==
    /\ pc = "parsed"
    /\ result.len = 2
    /\ result.field_starts[2] > 0
    /\ result.field_starts[3] = result.field_starts[2]

(***************************************************************************)
(* Well-known indices.                                                     *)
(***************************************************************************)
\* the kind of the key of field k (0-based, absolute) of record i (1-based):
\* a CSV field takes the kind of its header column, any other field the
\* class of the bytes at its key range
KindOfField(i, k) ==
    IF fmt = "Csv"
    THEN csv_header.well_known[k - result.field_starts[i] + 1]
    ELSE classify_key(Slice(data, result.fields[k + 1].key_offset,
                            result.fields[k + 1].key_offset
                                + result.fields[k + 1].key_len))

\* the greatest k in [field_starts[i], field_starts[i+1]) of kind K, or the
\* sentinel
LastOfKind(i, K) ==
    LET ks == {k \in result.field_starts[i]..(result.field_starts[i + 1] - 1) :
                  KindOfField(i, k) = K}
    IN  IF ks = {} THEN NOT_FOUND
        ELSE CHOOSE k \in ks : \A k2 \in ks : k2 <= k

\* C15: for every record i and every well-known kind, the stored index is
\* the absolute position in fields of the last field of record i whose key
\* classifies as that kind, and the sentinel when the record has none.
C15_WellKnownIsLastOfKind ==
    (pc = "parsed") =>
        \A i \in 1..result.len :
            /\ result.well_known[i].timestamp = LastOfKind(i, "Timestamp")
            /\ result.well_known[i].level = LastOfKind(i, "Level")
            /\ result.well_known[i].message = LastOfKind(i, "Message")
            /\ result.well_known[i].component = LastOfKind(i, "Component")

\* the second record's only field is a level key: its stored index is the
\* absolute position 1, and the kinds absent from the record hold the sentinel
C15_Witness ==
    /\ pc = "parsed"
    /\ result.len = 2
    /\ result.field_starts = <<0, 1, 2>>
    /\ KindOfField(2, 1) = "Level"
    /\ result.well_known[2].level = 1
    /\ result.well_known[2].timestamp = NOT_FOUND
    /\ result.well_known[1].level = NOT_FOUND

(***************************************************************************)
(* The scanner kernels.                                                    *)
(***************************************************************************)
\* out is line_starts followed by exactly the offsets global_base + i + 1 of
\* the newlines bytes[i] with global_base + i + 1 < data_total_len, ascending
AppendsLineStarts(out) ==
    LET n0 == Len(scan_args.line_starts)
        added == {out[k] : k \in (n0 + 1)..Len(out)}
    IN  /\ Len(out) >= n0
        /\ SubSeq(out, 1, n0) = scan_args.line_starts
        /\ \A k \in (n0 + 1)..(Len(out) - 1) : out[k] < out[k + 1]
        /\ added = {scan_args.global_base + i + 1 : i \in
                       {j \in 0..(Len(data) - 1) :
                           /\ data[j + 1] = NL
                           /\ scan_args.global_base + j + 1 < scan_args.data_total_len}}

\* C16: each scanner kernel appends to the vector exactly the offsets
\* base + i + 1 of the newlines with base + i + 1 < total length, in
\* increasing order, keeps the entries already there and adds no sentinel;
\* the three kernels return the same vector.
C16_KernelsAppendLineStarts ==
    (pc = "scanned") =>
        /\ AppendsLineStarts(result.scalar)
        /\ AppendsLineStarts(result.avx2)
        /\ AppendsLineStarts(result.avx512)
        /\ result.avx2 = result.scalar
        /\ result.avx512 = result.scalar

\* a slice long enough for the four-lane loop, the one-lane loop, the ymm
\* loop and the tail, with two newlines in the high half of a lane, whose
\* vector already held entries
C16_Witness ==
    /\ pc = "scanned"
    /\ Len(data) = MaxScanLen
    /\ data[41] = NL /\ data[42] = NL
    /\ scan_args.line_starts = <<0, 3>>
    /\ result.avx2 = <<0, 3, 46, 47>>

(***************************************************************************)
(* Key classification.                                                     *)
(***************************************************************************)
\* the ASCII-lowercased key is an entry of the vocabulary names
InVocabulary(key, names) ==
    \E k \in 1..Len(names) :
        /\ Len(key) = Len(names[k])
        /\ \A i \in 1..Len(key) :
              (IF key[i] >= 65 /\ key[i] <= 90 THEN key[i] + 32 ELSE key[i]) = names[k][i]

\* C17: classify_key(k) is kind K exactly when the ASCII-lowercased k is an
\* entry of K's vocabulary, and Other when it is in none; in particular any
\* key longer than 64 bytes is Other.
C17_ClassifyIsVocabularyMembership ==
    (pc = "classified") =>
        /\ (result.kind = "Timestamp") <=> InVocabulary(data, TIMESTAMP_NAMES)
        /\ (result.kind = "Level") <=> InVocabulary(data, LEVEL_NAMES)
        /\ (result.kind = "Message") <=> InVocabulary(data, MESSAGE_NAMES)
        /\ (result.kind = "Component") <=> InVocabulary(data, COMPONENT_NAMES)
        /\ result.kind \in {"Timestamp", "Level", "Message", "Component", "Other"}
        /\ (Len(data) > 64) => result.kind = "Other"

\* SUBSYSTEM, in upper case and reached through the 's' branch of the
\* dispatch after the level names did not match, is a component key
C17_Witness ==
    /\ pc = "classified"
    /\ data = <<83, 85, 66, 83, 89, 83, 84, 69, 77>>
    /\ result.kind = "Component"

(***************************************************************************)
(* The fields of well-formed JSON and logfmt lines.                        *)
(***************************************************************************)
\* where the members ms are written, the first one starting at offset: for
\* JSON "key":value with the string value inside its quotes, for logfmt
\* key=value
RECURSIVE TokenRefs(_, _, _, _)
TokenRefs(f, ms, offset, spaced) ==
    IF ms = <<>> THEN <<>>
    ELSE LET m == Head(ms)
             sp == IF spaced THEN 1 ELSE 0
             vo == IF f = "Json" THEN offset + 1 + Len(m.key) + 2 + sp
                   ELSE offset + Len(m.key) + 1
             ref == [key_offset |-> IF f = "Json" THEN offset + 1 ELSE offset,
                     key_len |-> Len(m.key),
                     val_offset |-> IF m.value.kind = "string" THEN vo + 1 ELSE vo,
                     val_len |-> Len(ValueBytes(m.value))]
             next == vo + Len(m.value.text) + 1 + sp
         IN  <<ref>> \o TokenRefs(f, Tail(ms), next, spaced)

\* the field refs of all members of the input, line by line
ExpectedFields ==
    LET ls == TokenLines(tokens)
        first == IF fmt = "Json" THEN 1 ELSE 0
        line2 == Len(RenderLine(fmt, ls[1], tokens.spaced)) + 1
    IN  TokenRefs(fmt, ls[1], first, tokens.spaced)
            \o (IF Len(ls) = 2
                THEN TokenRefs(fmt, ls[2], line2 + first, tokens.spaced)
                ELSE <<>>)

\* C18: each line holding one well-formed JSON object yields one record with
\* exactly one field per top-level member, in order; a nested object or
\* array is one field from its opening bracket to just after the matching
\* closing bracket, and no key inside it becomes a field.
C18_OneFieldPerTopLevelMember ==
    (pc = "parsed" /\ fmt = "Json") =>
        LET ls == TokenLines(tokens)
        IN  /\ result.len = Len(ls)
            /\ result.fields = ExpectedFields
            /\ \A r \in 1..Len(ls) :
                  result.field_starts[r + 1] - result.field_starts[r] = Len(ls[r])
            /\ \A k \in 1..Len(tokens.members) :
                  tokens.members[k].value.kind = "nested" =>
                      /\ Byte(data, result.fields[k].val_offset) \in {LBRACE, LBRACKET}
                      /\ Slice(data, result.fields[k].val_offset,
                               result.fields[k].val_offset + result.fields[k].val_len)
                             = tokens.members[k].value.text

\* one object whose two members are the nested array and the nested object
C18_Witness ==
    /\ pc = "parsed" /\ fmt = "Json"
    /\ Len(tokens.members) = 2
    /\ tokens.cut = 3
    /\ tokens.members[1].value.kind = "nested"
    /\ tokens.members[1].value.text[1] = LBRACKET
    /\ tokens.members[2].value.kind = "nested"
    /\ tokens.members[2].value.text[1] = LBRACE
    /\ Len(result.fields) = 2
    /\ result.fields[2].val_len = 15

\* the inputs of the round trip: logfmt tokens, or JSON members whose
\* values are all strings
RoundTripInput ==
    \/ fmt = "Logfmt"
    \/ /\ fmt = "Json"
       /\ \A k \in 1..Len(tokens.members) : tokens.members[k].value.kind = "string"

\* C19: for a logfmt line of single-space-separated key=value tokens and for
\* a JSON object of "key":"value" members, the number of fields is the number
\* of tokens and the bytes at each field's key range and value range are the
\* key and the value of the corresponding token.
C19_RoundTrip ==
    (pc = "parsed" /\ RoundTripInput) =>
        /\ Len(result.fields) = Len(tokens.members)
        /\ \A k \in 1..Len(tokens.members) :
              /\ Slice(data, result.fields[k].key_offset,
                       result.fields[k].key_offset + result.fields[k].key_len)
                     = tokens.members[k].key
              /\ Slice(data, result.fields[k].val_offset,
                       result.fields[k].val_offset + result.fields[k].val_len)
                     = ValueBytes(tokens.members[k].value)

\* a logfmt line of two tokens, the second with the value a=b
C19_Witness ==
    /\ pc = "parsed" /\ fmt = "Logfmt"
    /\ Len(tokens.members) = 2
    /\ tokens.cut = 3
    /\ tokens.members[2].value.text = <<97, EQUALS, 98>>
    /\ Len(result.fields) = 2
    /\ result.fields[2].val_len = 3

(***************************************************************************)
(* CSV rows against the header.                                            *)
(***************************************************************************)
\* the number of fields of a row without quotes: one more than its commas
RowFieldCount(line) ==
    1 + Cardinality({k \in 1..Len(line) : line[k] = COMMA})

\* C20: parse_csv_line maps row fields to header columns by position: the
\* j-th field of a record carries the key range and the well-known kind of
\* header column j, a record never has more fields than the header has
\* columns, and a row with fewer fields than columns yields those fields
\* (checked on the rows without quotes, whose fields are what the commas
\* separate).
C20_CsvPositionalMapping ==
    (pc = "parsed" /\ fmt = "Csv") =>
        \A i \in 1..result.len :
            LET first == result.field_starts[i]
                count == result.field_starts[i + 1] - first
                line == Slice(data, result.line_offsets[i],
                              result.line_offsets[i] + result.line_lens[i])
            IN  /\ count <= num_columns(csv_header)
                /\ \A j \in 1..count :
                      /\ result.fields[first + j].key_offset = csv_header.columns[j][1]
                      /\ result.fields[first + j].key_len = csv_header.columns[j][2]
                /\ result.well_known[i].timestamp = LastOfKind(i, "Timestamp")
                /\ (/\ \A k \in 1..Len(line) : line[k] # QUOTE
                    /\ RowFieldCount(line) < num_columns(csv_header)) =>
                      count = RowFieldCount(line)

(***************************************************************************)
(* CSV key ranges against the buffer a batch refers to.                    *)
(***************************************************************************)
\* C21: for CSV input parsed through parse_structured_mmap, for every field
\* of every record the key range lies inside the buffer the batch refers to
\* (its data_ptr: the bytes handed to parse_format_mmap) and the bytes there
\* are the name of the header column at the field's position.
C21_CsvKeyRangeNamesColumn ==
    (pc = "done" /\ fmt = "Csv") =>
        LET buf == MmapBody(data, fmt)
            header == MmapHeader(data, fmt)
        IN  \A b \in 1..Len(result.batches) :
                LET batch == result.batches[b]
                IN  \A i \in 1..batch.len :
                        \A j \in 1..(batch.field_starts[i + 1] - batch.field_starts[i]) :
                            LET field == batch.fields[batch.field_starts[i] + j]
                                column == header.columns[j]
                            IN  /\ field.key_offset + field.key_len <= Len(buf)
                                /\ Slice(buf, field.key_offset,
                                         field.key_offset + field.key_len)
                                       = Slice(data, column[1], column[1] + column[2])

(***************************************************************************)
(* Timestamps.                                                             *)
(***************************************************************************)
\* the days from 1970-01-01 to the date of tokens (negative before 1970),
\* counted from the leap years before the year and the lengths of the months
DaysSinceEpoch ==
    LET leaps_before(y) == ((y - 1) \div 4) - ((y - 1) \div 100) + ((y - 1) \div 400)
        months == [m \in 1..(tokens.month - 1) |-> DaysInMonth(tokens.year, m)]
    IN  365 * (tokens.year - 1970) + leaps_before(tokens.year) - leaps_before(1970)
            + SumSeq(months) + tokens.day - 1

\* C22: parse_timestamp_fast returns the seconds since 1970-01-01T00:00:00Z
\* of every valid date-time of the years 1970..9999, 0 for every valid
\* date-time before 1970 and 0 for every input shorter than 20 bytes (the
\* seconds are compared as whole days and seconds of the day).
C22_TimestampIsSecondsSinceEpoch ==
    (pc = "stamped") =>
        IF Len(data) < 20 \/ tokens.year < 1970
        THEN result.timestamp = [days |-> 0, secs |-> 0]
        ELSE result.timestamp =
                 [days |-> DaysSinceEpoch,
                  secs |-> tokens.hour * 3600 + tokens.min * 60 + tokens.sec]

\* the last second of 1 March 2100, after the February of a century year
\* that is not a leap year
C22_Witness ==
    /\ pc = "stamped"
    /\ tokens.year = 2100 /\ tokens.month = 3 /\ tokens.day = 1
    /\ Len(data) = 20
    /\ result.timestamp = [days |-> 47541, secs |-> 86399]

(***************************************************************************)
(* Format detection.                                                       *)
(***************************************************************************)
\* the three tests on the parts the buffer was written from: where the first
\* byte after a leading byte order mark and white space is the opening, the
\* number of key=value tokens, and the commas and letters of the first line
\* (which ends with the CR of a CR LF) against the second line
DetectRules ==
    LET parts == DetectParts(tokens)
        line == parts.first_line \o (IF tokens.crlf THEN <<CR>> ELSE <<>>)
        commas == Cardinality({k \in 1..Len(line) : line[k] = COMMA})
        letters == Cardinality({k \in 1..Len(line) :
                       line[k] \in (65..90) \cup (97..122) \cup {95}})
    IN  [blank |-> parts.first_line = <<>>,
         json |-> tokens.prefix # "ws_bom"
                  /\ tokens.opening \in {"brace", "bracket_brace", "bracket_space_brace"},
         logfmt |-> Cardinality({k \in 1..Len(tokens.first) :
                                    tokens.first[k].valid}) >= 2,
         csv |-> /\ commas >= 2
                 /\ letters >= Len(line) \div 3
                 /\ tokens.second = (IF commas = 2 THEN "two_commas" ELSE "no such line")]

CrOfLine(d, off) ==
    LET nls == {k \in off..(Len(d) - 1) : Byte(d, k) = NL}
    IN  IF nls # {} /\ SetMin(nls) > off /\ Byte(d, SetMin(nls) - 1) = CR
        THEN SetMin(nls) - 1
        ELSE NOT_FOUND

\* C24: in the JSON, logfmt and CSV range parsers, the line_len recorded for
\* a line that ends with CR LF excludes the CR and the LF, and no field range
\* of that record includes the CR.
C24_CrlfStripped ==
    (pc = "parsed") =>
        \A r \in 1..result.len :
            LET off == result.line_offsets[r]
                cr == CrOfLine(data, off)
            IN  (cr # NOT_FOUND) =>
                    /\ off + result.line_lens[r] = cr
                    /\ \A k \in (result.field_starts[r] + 1)..result.field_starts[r + 1] :
                           LET field == result.fields[k]
                           IN  /\ fmt # "Csv" =>
                                      ~(field.key_offset <= cr
                                        /\ cr < field.key_offset + field.key_len)
                               /\ ~(field.val_offset <= cr
                                    /\ cr < field.val_offset + field.val_len)

\* the offsets of the CRs of d that are followed by LF
CrlfOffsets(d) == {p \in 0..(Len(d) - 2) : Byte(d, p) = CR /\ Byte(d, p + 1) = NL}

\* C25: in the plain-text parser the CR of a line that ends with CR LF is
\* stripped before field extraction: the message range of the record, and
\* its component range when the line has no message, does not include the CR.
C25_PlainCrStripped ==
    (pc = "plain_parsed") =>
        \A r \in 1..result.len :
            \A p \in CrlfOffsets(data) :
                /\ ~(result.message_offsets[r] <= p
                     /\ p < result.message_offsets[r] + result.message_lens[r])
                /\ ~(result.component_offsets[r] <= p
                     /\ p < result.component_offsets[r] + result.component_lens[r])

C27_BoundariesAfterNewlines ==
    (boundaries # <<>>) =>
        LET buf == MmapBody(data, fmt)
        IN  /\ boundaries[1] = 0
            /\ boundaries[Len(boundaries)] = Len(buf)
            /\ \A k \in 1..(Len(boundaries) - 1) : boundaries[k] <= boundaries[k + 1]
            /\ \A k \in 1..Len(boundaries) :
                   (boundaries[k] # 0 /\ boundaries[k] # Len(buf)) =>
                       Byte(buf, boundaries[k] - 1) = NL

\* the chunk-size step lands inside a line and the boundary is moved to the
\* start of the next line, which is not the end of the buffer
C27_Witness ==
    /\ Len(boundaries) = 3
    /\ boundaries[2] > chunk_size + 1
    /\ boundaries[2] < Len(MmapBody(data, fmt))

\* C28: every chunk of the mmap chunker is non-empty: the boundary list is
\* strictly increasing, also when the newline found after a chunk-size step
\* is the last byte of the buffer.
C28_ChunksNonEmpty ==
    (boundaries # <<>>) =>
        \A k \in 1..(Len(boundaries) - 1) : boundaries[k] < boundaries[k + 1]

\* C29: with C chunks and R requested threads the call runs W = min(max(R, 1),
\* C) workers (the loop of the calling thread when W = 1); worker k is
\* assigned the chunks floor(k * C / W) .. floor((k + 1) * C / W) - 1 in
\* increasing order, so each chunk has exactly one worker and each worker has
\* at least one chunk.
C29_ContiguousPartition ==
    (boundaries # <<>>) =>
        LET C == Len(boundaries) - 1
            W == Min2(Max2(num_threads, 1), C)
        IN  /\ (assignments = <<>>) <=> (W = 1)
            /\ (assignments # <<>>) =>
                   /\ Len(assignments) = W
                   /\ \A k \in 0..(W - 1) :
                          LET chunks == assignments[k + 1]
                          IN  /\ Len(chunks) >= 1
                              /\ chunks[1] = (k * C) \div W
                              /\ chunks[Len(chunks)] = ((k + 1) * C) \div W - 1
                              /\ \A j \in 1..(Len(chunks) - 1) :
                                     chunks[j + 1] = chunks[j] + 1
                   /\ \A c \in 0..(C - 1) :
                          Cardinality({<<k, j>> \in (1..W) \X (1..C) :
                                          j <= Len(assignments[k])
                                          /\ assignments[k][j] = c}) = 1

\* three chunks among two workers: the first has one chunk, the second two
C29_Witness ==
    /\ Len(boundaries) = 4
    /\ Len(assignments) = 2
    /\ Len(assignments[1]) = 1
    /\ Len(assignments[2]) = 2
    /\ num_threads = 2

(***************************************************************************)
(* The CSV header of the streaming loop.                                   *)
(***************************************************************************)
\* C30: in streaming CSV mode the header is parsed only from a buffer that
\* holds the complete first line: the recorded header is the header of the
\* file's first line, also when the first segment ends before that line's
\* newline, and the bytes handed to the parser or carried over are exactly
\* the bytes read after the header line, so no header byte is discarded or
\* parsed as a data row (for a file whose first line is not empty, while no
\* read has failed).
C30_HeaderFromCompleteLine ==
    (/\ fmt = "Csv"
     /\ pc \in {"reading", "returned"}
     /\ read_errors = 0
     /\ csv_header.is_some
     /\ data # <<>> /\ data[1] # NL) =>
        /\ csv_header = CsvHeaderParse(data)
        /\ Flatten(regions) \o leftover \o ReadBuf
               = Slice(data, header_end_offset(data), file_pos)

(***************************************************************************)
(* The CSV test of the detector.                                           *)
(***************************************************************************)
\* the CSV test as stated: two commas or more on the first line, letters and
\* underscores at least one third of its bytes, and a second line with the
\* same number of commas
CsvTestAsStated ==
    LET line == DetectParts(tokens).first_line
                    \o (IF tokens.crlf THEN <<CR>> ELSE <<>>)
        commas == Cardinality({k \in 1..Len(line) : line[k] = COMMA})
        letters == Cardinality({k \in 1..Len(line) :
                       line[k] \in (65..90) \cup (97..122) \cup {95}})
    IN  /\ commas >= 2
        /\ 3 * letters >= Len(line)
        /\ tokens.second = (IF commas = 2 THEN "two_commas" ELSE "no such line")

\* C31: for a buffer that is neither JSON nor logfmt, detect returns Csv
\* exactly when the first line has at least 2 commas, 3 * (letters and
\* underscores) >= its length, and a second line has the same number of
\* commas; otherwise it returns PlainText.
C31_CsvTest ==
    (pc = "detected" /\ ~DetectRules.blank /\ ~DetectRules.json
        /\ ~DetectRules.logfmt) =>
        result.format = (IF CsvTestAsStated THEN "Csv" ELSE "PlainText")

(***************************************************************************)
(* Lines of the plain-text format with fewer than three separators.        *)
(***************************************************************************)
\* C32: in parse_line a line with exactly one space has a message equal to
\* the bytes after that space, and a line with exactly two spaces a message
\* equal to the bytes after the second space (checked on the buffers that
\* are one line without a newline, whose only record is parse_line of the
\* whole buffer).
C32_MessageAfterLastSeparator ==
    (pc = "done" /\ fmt = "Plain" /\ data # <<>>
        /\ \A k \in 1..Len(data) : data[k] # NL) =>
        LET spaces == {k \in 0..(Len(data) - 1) : Byte(data, k) = SP}
            batch == result.batches[1]
        IN  (Cardinality(spaces) \in {1, 2}) =>
                /\ batch.message_offsets[1] = SetMax(spaces) + 1
                /\ batch.message_lens[1] = Len(data) - (SetMax(spaces) + 1)

(***************************************************************************)
(* The chunk size.                                                         *)
(***************************************************************************)
\* the number a text of decimal digits denotes, NOT_FOUND for any other text
DecimalValue(text) ==
    IF text = <<>> \/ \E k \in 1..Len(text) : text[k] \notin 48..57 THEN NOT_FOUND
    ELSE LET RECURSIVE pow10(_)
             pow10(n) == IF n = 0 THEN 1 ELSE 10 * pow10(n - 1)
         IN  SumSeq([k \in 1..Len(text) |-> (text[k] - 48) * pow10(Len(text) - k)])

\* C33: the target chunk size is max(PANDORA_CHUNK_MB, 1) MiB for every
\* non-negative integer value of the variable, so 0 gives 1 MiB; it is 64 MiB
\* when the variable is unset or holds no integer at all (a text with a byte
\* that is neither a digit nor a sign, or the empty text).
C33_ChunkSizeIsAtLeastOneMiB ==
    (pc = "configured") =>
        LET n == DecimalValue(tokens.text)
        IN  /\ (tokens.set /\ n # NOT_FOUND) =>
                   result.chunk_size = Max2(n, 1) * MIB
            /\ (~tokens.set \/ tokens.text = <<>>
                    \/ \E k \in 1..Len(tokens.text) :
                           tokens.text[k] \in {120, SP}) =>
                   result.chunk_size = 64 * MIB

(***************************************************************************)
(* Lone keys and quoted values of logfmt.                                  *)
(***************************************************************************)
\* where the tokens toks are written, the first one starting at offset: a
\* lone key has an empty value at its end, a quoted value lies inside its
\* quotes
RECURSIVE LogfmtTokenRefs(_, _)
LogfmtTokenRefs(toks, offset) ==
    IF toks = <<>> THEN <<>>
    ELSE LET tok == Head(toks)
             key_end == offset + Len(tok.key)
         IN  <<[key_offset |-> offset,
                key_len |-> Len(tok.key),
                val_offset |-> IF ~tok.eq THEN key_end
                               ELSE IF tok.quoted THEN key_end + 2 ELSE key_end + 1,
                val_len |-> Len(tok.value)]>>
             \o LogfmtTokenRefs(Tail(toks), offset + Len(LogfmtTokenText(tok)) + 1)

\* C34: in parse_logfmt_line a token without '=' yields a field with that key
\* and an empty value, and a token key="..." yields the value range from
\* after the opening quote to before the first quote that no backslash
\* escapes, with the backslashes and escaped quotes verbatim in it; the
\* tokens after the closing quote are parsed as well.
C34_LoneKeysAndQuotedValues ==
    (pc = "parsed" /\ fmt = "Logfmt" /\ tokens # <<>>) =>
        /\ result.len = 1
        /\ result.fields = LogfmtTokenRefs(tokens, 0)
        /\ \A k \in 1..Len(tokens) :
               Slice(data, result.fields[k].val_offset,
                     result.fields[k].val_offset + result.fields[k].val_len)
                   = tokens[k].value

\* a value with an escaped quote, then a value that is an escaped backslash,
\* then a lone key
C34_Witness ==
    /\ pc = "parsed"
    /\ Len(tokens) = 3
    /\ tokens[1].value = <<97, BACKSLASH, QUOTE, 98>>
    /\ tokens[2].value = <<BACKSLASH, BACKSLASH>>
    /\ ~tokens[3].eq
    /\ Len(result.fields) = 3
    /\ result.fields[1].val_len = 4
    /\ result.fields[3].val_len = 0

(***************************************************************************)
(* Termination of the streaming loops.                                     *)
(***************************************************************************)
\* what is left to do: the bytes not yet read, the bytes read and not yet
\* handed to the loop body, the bytes carried over, the reads that may still
\* fail, and the position in the loop
StreamRank ==
    3 * (Len(data) - file_pos) + 2 * filled + Len(leftover)
        + 2 * (MaxReadErrors - read_errors)
        + (IF pc = "open" THEN 3 ELSE IF pc = "read_error" THEN 2
           ELSE IF pc = "reading" THEN 1 ELSE 0)

\* C35: for every file, segment size and pattern of short reads the loops of
\* parse_logs_streamed and parse_structured_streamed end: the loop is never
\* blocked, and every read and every iteration lowers StreamRank, which is
\* never negative; and in a run without a failed read, the iteration whose
\* read_full delivered fewer bytes than the segment size either leaves the
\* loop or leaves an empty leftover at the end of the file, from where the
\* next iteration leaves the loop.
C35_StreamingTerminates ==
    /\ [](/\ StreamRank >= 0
          /\ (pc = "reading") =>
                 (ReadFullReturned \/ (filled < chunk_size /\ file_pos < Len(data))))
    /\ [][StreamRank' < StreamRank]_vars
    /\ [][(ReadFullReturned /\ filled < chunk_size /\ read_errors' = 0) =>
              \/ pc' \in {"returned", "aborted"}
              \/ /\ pc' = "reading" /\ filled' = 0
                 /\ leftover' = <<>> /\ file_pos' = Len(data)]_vars
    /\ [][(/\ pc = "reading" /\ filled = 0 /\ leftover = <<>>
           /\ file_pos = Len(data) /\ read_errors' = 0) => pc' = "returned"]_vars

\* a CSV call that returned after several iterations without a failed read:
\* the file is longer than one segment, was read to its end, and gave at least
\* two regions after the header
C35_Witness ==
    /\ pc = "returned"
    /\ fmt = "Csv"
    /\ csv_header.is_some
    /\ Len(regions) >= 2
    /\ read_errors = 0
    /\ Len(data) > chunk_size
    /\ file_pos = Len(data)

\* the fields of the whole call of the line parser on the line
WholeLine ==
    IF fmt = "Json" THEN parse_json_line(data, 0, with_capacity)
    ELSE IF fmt = "Logfmt" THEN parse_logfmt_line(data, 0, with_capacity)
    ELSE parse_csv_line(data, 0, csv_header, with_capacity)

\* C36: parse_json_line, parse_logfmt_line and parse_csv_line terminate on
\* every byte sequence: an iteration of the main loop that does not leave the
\* loop strictly advances the byte cursor, or in parse_csv_line the column
\* index without moving the cursor back; the cursor never passes the end of
\* the line by more than one byte and the column index never passes the number
\* of columns, so at most len + 2 iterations run (in parse_csv_line, one more
\* than there are columns); and the loop that ended pushed the fields of the
\* whole call.
C36_LineLoopsAdvance ==
    /\ [][(pc = "line_loop" /\ pc' = "line_loop") =>
              \/ result'.i > result.i
              \/ /\ fmt = "Csv"
                 /\ result'.col_idx > result.col_idx
                 /\ result'.i >= result.i]_vars
    /\ [](/\ result.i <= Len(data) + 1
          /\ result.col_idx <= num_columns(csv_header)
          /\ result.iterations <= (IF fmt = "Csv" THEN num_columns(csv_header) + 1
                                   ELSE Len(data) + 2)
          /\ (pc = "line_done") =>
                 /\ ~WholeLine.panicked
                 /\ Len(WholeLine.fields) = result.fields
          /\ (pc = "line_panicked") => WholeLine.panicked)

\* a CSV line whose loop is still running after an iteration that left the
\* cursor where it was: only the column index advanced
C36_Witness ==
    /\ pc = "line_loop"
    /\ fmt = "Csv"
    /\ result.iterations >= 1
    /\ result.i = result.prev_i
    /\ result.col_idx = 1
    /\ num_columns(csv_header) = 2

\* the LANE_WIDTH bytes of the sparse buffer from position lo
WindowBytes(lo) ==
    [k \in 1..LANE_WIDTH |-> IF (lo + k - 1) \in scan_args.newlines THEN NL ELSE LOWER_T]

\* scan_region on the bytes of a window gives what the sparse scan gives
WindowAgrees(lo) ==
    scan_region(WindowBytes(lo), lo, scan_args.len)
        = scan_region_sparse(scan_args.newlines, lo, lo + LANE_WIDTH, lo, scan_args.len)

\* C37: for every buffer and every thread count scan_newlines_parallel returns
\* the vector of scan_newlines: 0 followed, in increasing order and once each,
\* by p + 1 for every newline at p except one at the last byte, whatever the
\* order in which the scan threads finish; the chunks are cut at multiples of
\* the chunk size, not after newlines.  (The sparse scan is cross-checked with
\* the byte-wise scan_region on the first and the last bytes of the buffer.)
C37_ParallelScanMatchesSequential ==
    /\ (pc = "par_returned") =>
          /\ result = scan_newlines(scan_args.len, scan_args.newlines)
          /\ StrictlyIncreasing(result)
          /\ {result[k] : k \in 1..Len(result)}
                = {0} \cup {p + 1 : p \in {q \in scan_args.newlines :
                                              q + 1 < scan_args.len}}
    /\ (scan_args.len >= LANE_WIDTH) =>
          /\ WindowAgrees(0)
          /\ WindowAgrees(scan_args.len - LANE_WIDTH)

\* a parallel scan of three chunks that returned after the last thread
\* finished first, with a newline at the last byte of the first chunk and one
\* at the first byte of the second
C37_Witness ==
    /\ pc = "par_returned"
    /\ Len(assignments) = 3
    /\ finish_order = <<3, 2, 1>>
    /\ scan_args.newlines = {assignments[1].end - 1, assignments[2].start}
    /\ Len(result) = 3

\* the topology entry of logical core c
EntryOf(c) == tokens[c + 1]

\* the number of logical cores of the package of logical core c
PackageSize(c) ==
    Cardinality({k \in 1..Len(tokens) : tokens[k].package_id = EntryOf(c).package_id})

\* the selected core at position k shares its key with one selected before it
IsSibling(k) ==
    \E j \in 1..(k - 1) :
        core_key(EntryOf(result.selected[j])) = core_key(EntryOf(result.selected[k]))

\* C38: choose_pinned_cores(W, cores) returns min(W, number of cores) pairwise
\* distinct logical cores of cores; a core that shares its (package, core id)
\* with a core selected before it comes after a core of every (package, core
\* id) of the topology; and the packages are visited in order of decreasing
\* number of cores: the package list is sorted so, and both among the cores
\* selected first for their key and among the siblings a core of a larger
\* package never follows a core of a smaller one.
C38_PinnedCores ==
    (pc = "pinned") =>
        LET sel == result.selected
            n == Len(sel)
        IN  /\ n = Min2(num_threads, Len(tokens))
            /\ \A k \in 1..n : sel[k] \in 0..(Len(tokens) - 1)
            /\ \A j, k \in 1..n : sel[j] = sel[k] => j = k
            /\ \A k \in 1..n :
                  IsSibling(k) =>
                      {core_key(tokens[e]) : e \in 1..Len(tokens)}
                          = {core_key(EntryOf(sel[j])) : j \in 1..(k - 1)}
            /\ \A k \in 1..(Len(result.packages) - 1) :
                  Len(result.packages[k]) >= Len(result.packages[k + 1])
            /\ \A j, k \in 1..n :
                  (j < k /\ IsSibling(j) = IsSibling(k)) =>
                      PackageSize(sel[j]) >= PackageSize(sel[k])

\* three logical cores in two packages, the package of the last two cores
\* being the larger and its cores sharing one core id: three workers get a
\* core of the larger package, then the core of the smaller, then the sibling
C38_Witness ==
    /\ pc = "pinned"
    /\ Len(tokens) = 3
    /\ num_threads = 3
    /\ Len(result.packages) = 2
    /\ Len(result.packages[1]) = 2
    /\ \A k \in 1..3 : tokens[k].package_id # NOT_FOUND /\ tokens[k].core_id # NOT_FOUND
    /\ ~IsSibling(2) /\ IsSibling(3)
    /\ tokens[1].package_id = result.packages[2][1].package_id
    /\ result.selected = <<1, 0, 2>>

\* C39: for every byte sequence and start position the block-wise string-end
\* searches return the position find_string_end_scalar returns, also when a
\* run of backslashes ends at the last byte of a 64-byte block and a quote is
\* the first byte of the next block.
C39_SimdStringEndMatchesScalar ==
    (pc = "string_found") =>
        /\ result.avx2 = result.scalar
        /\ result.avx512 = result.scalar

\* the searches agree whenever the backslashes that end at the last byte of
\* the first block are even in number (none included)
StringEndAgreesWithoutOddRun ==
    (/\ pc = "string_found"
     /\ BsCount({k \in 0..(Len(data) - 1) : Byte(data, k) = BACKSLASH},
                scan_args.start + LANE_WIDTH - 1) % 2 = 0) =>
        /\ result.avx2 = result.scalar
        /\ result.avx512 = result.scalar
====
